---- MODULE Spec2Model ----
(***************************************************************************)
(* Model of the type conversion engine of rust_swig (macroslib/src/typemap.rs):*)
(* the conversion graph, direct path search, speculative path building     *)
(* inside a rollback-capable snapshot, rule merging and foreign mapping.   *)
(*                                                                         *)
(* Indices are 1-based here (NodeIndex i of the source is i+1); 0 is the   *)
(* index a node record carries before it is placed in a graph.             *)
(***************************************************************************)
EXTENDS Integers, Sequences, FiniteSets, TLC

\* ------------------------------------------------------------------ bounds
\* most operations in one behaviour
MaxOps == 2
\* most tokens in a type expression that a generic rule makes longer than the
\* type it is applied to
MaxTyDepth == 2
\* the enum item counts tried lie within this distance of a multiple of 2^16
EnumSpan == 20
\* most tokens in the names and suffixes the suffixing is tried on
MaxNameLen == 2

\* typemap.rs:35
MAX_TRY_BUILD_PATH_STEPS == 7

\* a score larger than any path cost (scores map: "no entry")
NoScore == 0 - 1

\* ------------------------------------------------------------ small helpers
Range(s) == {s[i] : i \in 1..Len(s)}

Last(s) == s[Len(s)]

RECURSIVE SetToSeqAsc(_)
\* a finite set of integers as an increasing sequence
SetToSeqAsc(S) ==
    IF S = {} THEN <<>>
    ELSE LET m == CHOOSE x \in S : \A y \in S : x <= y
         IN  <<m>> \o SetToSeqAsc(S \ {m})

IsPrefix(p, s) == Len(p) <= Len(s) /\ SubSeq(s, 1, Len(p)) = p

\* ---------------------------------------------------------- type expressions
\* A type expression is a sequence of tokens, outermost constructor first:
\* <<"&", "Box", "Foo">> is & Box < Foo >.  The token "'a" is a lifetime.
Lifetime == "'a"

\* the character 0 that make_unique_rust_typename puts before the suffix
Sentinel == "\\0"

\* ast::normalize_ty_lifetimes: the spelling with lifetimes erased
normalize_ty_lifetimes(ty) == SelectSeq(ty, LAMBDA t : t # Lifetime)

\* typemap.rs:941  format!("{}{}{}", not_unique_name, 0 as char, suffix)
make_unique_rust_typename(not_unique_name, suffix_to_make_unique) ==
    not_unique_name \o <<Sentinel>> \o suffix_to_make_unique

\* the name as it is, suffix and all
unpack_unique_typename_whole(name) == name

\* typemap.rs:958  the part of the name before the first character 0
unpack_unique_typename(name) ==
    IF \E i \in 1..Len(name) : name[i] = Sentinel
    THEN LET pos == CHOOSE i \in 1..Len(name) :
                        /\ name[i] = Sentinel
                        /\ \A j \in 1..(i - 1) : name[j] # Sentinel
         IN  SubSeq(name, 1, pos - 1)
    ELSE name

\* ty::RustTypeS::new_without_graph_idx
new_without_graph_idx(ty, name) ==
    [ty |-> ty, normalized_name |-> name, implements |-> {}, graph_idx |-> 0]

\* ty::RustTypeS::implements: the record with one more capability tag
implements(rty, trait_name) ==
    [rty EXCEPT !.implements = @ \cup {trait_name}]

\* ty::RustTypeS::merge: add the other record's tags, never remove
rust_type_merge(rty, other) ==
    [rty EXCEPT !.implements = @ \cup other.implements]

\* ------------------------------------------------- petgraph::Graph operations
\* A graph is [nodes : Seq(node record), edges : Seq([src, dst, w])].
EmptyGraph == [nodes |-> <<>>, edges |-> <<>>]

node_count(g) == Len(g.nodes)

edge_count(g) == Len(g.edges)

\* Graph::add_node: appended, its index is the new node count
graph_add_node(g, w) == [g EXCEPT !.nodes = Append(@, w)]

\* Graph::add_edge: appended, parallel edges allowed
graph_add_edge(g, a, b, w) ==
    [g EXCEPT !.edges = Append(@, [src |-> a, dst |-> b, w |-> w])]

\* the indices of the edges a -> b
EdgesBetween(g, a, b) ==
    {e \in 1..Len(g.edges) : g.edges[e].src = a /\ g.edges[e].dst = b}

\* Graph::find_edge: the first edge a -> b of a's outgoing list (newest first);
\* 0 when there is none
graph_find_edge(g, a, b) ==
    IF EdgesBetween(g, a, b) = {} THEN 0
    ELSE CHOOSE e \in EdgesBetween(g, a, b) :
             \A f \in EdgesBetween(g, a, b) : f <= e

\* an edge added whether the pair has one or not
graph_update_edge_add(g, a, b, w) == graph_add_edge(g, a, b, w)

\* Graph::update_edge: replace the weight of the edge a -> b, or add one
graph_update_edge(g, a, b, w) ==
    IF graph_find_edge(g, a, b) # 0
    THEN [g EXCEPT !.edges[graph_find_edge(g, a, b)].w = w]
    ELSE graph_add_edge(g, a, b, w)

\* Vec::swap_remove: the last element takes the freed position
swap_remove(s, i) ==
    IF i = Len(s) THEN SubSeq(s, 1, Len(s) - 1)
    ELSE SubSeq(s, 1, i - 1) \o <<s[Len(s)]>> \o SubSeq(s, i + 1, Len(s) - 1)

\* Graph::remove_edge: swap_remove, the last edge takes the freed index;
\* an index that names no edge removes nothing
graph_remove_edge(g, e) ==
    IF e \notin 1..Len(g.edges) THEN g
    ELSE [g EXCEPT !.edges = swap_remove(@, e)]

\* the edges that touch a, highest index first: the order in which removing
\* them one by one never moves an edge still to be removed
IncidentEdges(g, a) ==
    LET inc == SetToSeqAsc({e \in 1..Len(g.edges) :
                               g.edges[e].src = a \/ g.edges[e].dst = a})
    IN  [i \in 1..Len(inc) |-> inc[Len(inc) + 1 - i]]

RECURSIVE RemoveEdges(_, _, _, _)
\* remove_edge for es[lo], .., es[hi], one after the other in that order
RemoveEdges(g, es, lo, hi) ==
    IF lo > hi \/ edge_count(g) = 0 THEN g
    ELSE IF lo = hi THEN graph_remove_edge(g, es[lo])
    ELSE RemoveEdges(RemoveEdges(g, es, lo, (lo + hi) \div 2),
                     es, (lo + hi) \div 2 + 1, hi)

\* Graph::remove_node: drop the incident edges, swap_remove the node and
\* rename the moved node in the edges that name it
graph_remove_node(g, a) ==
    IF a \notin 1..Len(g.nodes) THEN g
    ELSE LET inc   == IncidentEdges(g, a)
             g1    == RemoveEdges(g, inc, 1, Len(inc))
             moved == Len(g1.nodes)
         IN  [nodes |-> swap_remove(g1.nodes, a),
              edges |-> [i \in 1..Len(g1.edges) |->
                            [g1.edges[i] EXCEPT
                                !.src = IF @ = moved THEN a ELSE @,
                                !.dst = IF @ = moved THEN a ELSE @]]]

\* Graph::neighbors_directed(a, Outgoing) as edge indices: a's outgoing list,
\* most recently added edge first
OutEdges(g, a) ==
    LET asc == SetToSeqAsc({e \in 1..Len(g.edges) : g.edges[e].src = a})
    IN  [i \in 1..Len(asc) |-> asc[Len(asc) + 1 - i]]

\* petgraph::algo::has_path_connecting: plain reachability, a node reaches itself
RECURSIVE ReachFrom(_, _)
ReachFrom(g, S) ==
    LET N == S \cup {g.edges[e].dst : e \in {x \in 1..Len(g.edges) : g.edges[x].src \in S}}
    IN  IF N = S THEN S ELSE ReachFrom(g, N)

has_path_connecting(g, from, to) == to \in ReachFrom(g, {from})

\* ------------------------------------------------------- direct path search
\* typemap.rs:998  |_| 1, the cost of every edge
edge_cost == 1

\* typemap.rs:999  |idx| if idx != from { 1 } else { 0 }
estimate_cost(idx, from, to) == IF idx # from THEN 1 ELSE 0

\* BinaryHeap::pop on MinScored: the position of an entry of least score
\* (the earliest pushed of them)
astar_pop(heap) ==
    CHOOSE i \in 1..Len(heap) :
        /\ \A j \in 1..Len(heap) : heap[i][1] <= heap[j][1]
        /\ \A j \in 1..(i - 1) : heap[j][1] > heap[i][1]

RemoveAt(s, i) == SubSeq(s, 1, i - 1) \o SubSeq(s, i + 1, Len(s))

RECURSIVE astar_relax_overwrite(_, _, _, _, _, _, _)
\* the loop over graph.edges(node) with the predecessor and the score written
\* whether the new score is better or not
astar_relax_overwrite(g, from, to, node, out, k, st) ==
    IF k > Len(out) THEN st
    ELSE IF g.edges[out[k]].dst \in st.visited
    THEN astar_relax_overwrite(g, from, to, node, out, k + 1, st)
    ELSE astar_relax_overwrite(g, from, to, node, out, k + 1,
           [st EXCEPT
              !.scores[g.edges[out[k]].dst] = st.scores[node] + edge_cost,
              !.pred[g.edges[out[k]].dst] = node,
              !.heap = Append(@, <<st.scores[node] + edge_cost
                                     + estimate_cost(g.edges[out[k]].dst, from, to),
                                   g.edges[out[k]].dst>>)])

RECURSIVE astar_relax(_, _, _, _, _, _, _)
\* petgraph::algo::astar, the loop over graph.edges(node): out[k..] are the
\* edges still to look at
astar_relax(g, from, to, node, out, k, st) ==
    IF k > Len(out) THEN st
    ELSE LET next == g.edges[out[k]].dst
         IN  IF next \in st.visited
             THEN astar_relax(g, from, to, node, out, k + 1, st)
             ELSE LET cand   == st.scores[node] + edge_cost
                      old    == st.scores[next]
                      better == old = NoScore \/ cand < old
                      score  == IF better THEN cand ELSE old
                  IN  astar_relax(g, from, to, node, out, k + 1,
                        [st EXCEPT
                           !.scores[next] = score,
                           !.pred[next] = IF better THEN node ELSE @,
                           !.heap = Append(@, <<score + estimate_cost(next, from, to), next>>)])

RECURSIVE reconstruct_path_to(_, _)
\* PathTracker::reconstruct_path_to: follow the predecessors back to the start
reconstruct_path_to(pred, node) ==
    IF pred[node] = 0 THEN <<node>>
    ELSE Append(reconstruct_path_to(pred, pred[node]), node)

RECURSIVE astar_loop(_, _, _, _)
\* petgraph::algo::astar, the loop over visit_next
astar_loop(g, from, to, st) ==
    IF st.heap = <<>> THEN [found |-> FALSE, nodes_path |-> <<>>]
    ELSE LET i    == astar_pop(st.heap)
             node == st.heap[i][2]
             st1  == [st EXCEPT !.heap = RemoveAt(@, i)]
         IN  IF node = to
             THEN [found |-> TRUE, nodes_path |-> reconstruct_path_to(st.pred, node)]
             ELSE IF node \in st.visited
             THEN astar_loop(g, from, to, st1)
             ELSE astar_loop(g, from, to,
                    astar_relax(g, from, to, node, OutEdges(g, node), 1,
                                [st1 EXCEPT !.visited = @ \cup {node}]))

\* petgraph::algo::astar(conv_graph, from, |idx| idx == to, |_| 1, estimate)
astar(g, from, to) ==
    astar_loop(g, from, to,
        [heap    |-> <<<<estimate_cost(from, from, to), from>>>>,
         visited |-> {},
         scores  |-> [n \in 1..Len(g.nodes) |-> IF n = from THEN 0 ELSE NoScore],
         pred    |-> [n \in 1..Len(g.nodes) |-> 0]])

\* the result of a search that found nothing
NoPath == [ok |-> FALSE, edges |-> <<>>]

\* typemap.rs:1002  the edge between each two neighbours of astar's node path;
\* typemap.rs:1004  the error when astar found none
path_of_nodes(g, r) ==
    IF r.found
    THEN [ok    |-> TRUE,
          edges |-> [i \in 1..(Len(r.nodes_path) - 1) |->
                        graph_find_edge(g, r.nodes_path[i], r.nodes_path[i + 1])]]
    ELSE NoPath

\* typemap.rs:982  the edges of the node path astar returns, or the error
find_conversation_path(g, from, to) == path_of_nodes(g, astar(g, from, to))

\* no path from a type to itself
find_path_no_self(g, from, to) ==
    IF g.nodes[from].normalized_name = g.nodes[to].normalized_name
    THEN NoPath
    ELSE find_conversation_path(g, from, to)

\* typemap.rs:521  the empty path for equal normalized names, else the search
find_path(g, from, to) ==
    IF g.nodes[from].normalized_name = g.nodes[to].normalized_name
    THEN [ok |-> TRUE, edges |-> <<>>]
    ELSE find_conversation_path(g, from, to)

\* ------------------------------------------------------------------ TypeMap
\* finite maps (FxHashMap) are functions on their key set
EmptyMap == [k \in {} |-> 0]

MapPut(m, k, v) == [x \in (DOMAIN m) \cup {k} |-> IF x = k THEN v ELSE m[x]]

\* the generic type parameter of a rule
TyParam == "T"

\* GenericTypeConv::simple_new with a code template: no bound, no foreign hint,
\* no dependency (cell 0 is the cell that holds None)
simple_new(from_ty, to_ty, code_template) ==
    [from_ty |-> from_ty, to_ty |-> to_ty, bounds |-> {},
     to_foreigner_hint |-> <<>>, code_template |-> code_template,
     dependency |-> 0]

\* typemap.rs:88  the five rules every TypeMap starts with
default_rules ==
    << simple_new(<<TyParam>>, <<"&", TyParam>>,
                  "let mut {to_var}: {to_var_type} = &{from_var};"),
       simple_new(<<TyParam>>, <<"&mut", TyParam>>,
                  "let mut {to_var}: {to_var_type} = &mut {from_var};"),
       simple_new(<<"&mut", TyParam>>, <<"&", TyParam>>,
                  "let mut {to_var}: {to_var_type} = {from_var};"),
       simple_new(<<"&", "Box", TyParam>>, <<"&", TyParam>>,
                  "let mut {to_var}: {to_var_type} = {from_var}.as_ref();"),
       simple_new(<<"&mut", "Box", TyParam>>, <<"&mut", TyParam>>,
                  "let mut {to_var}: {to_var_type} = {from_var}.as_mut();") >>

\* typemap.rs:85  TypeMap::default
TypeMapDefault ==
    [conv_graph            |-> EmptyGraph,
     foreign_names_map     |-> EmptyMap,
     rust_names_map        |-> EmptyMap,
     utils_code            |-> <<>>,
     generic_edges         |-> default_rules,
     rust_to_foreign_cache |-> EmptyMap,
     foreign_classes       |-> <<>>,
     dep_cells             |-> <<>>]

\* impl From<String> for TypeConvEdge: a rule with no dependency
TypeConvEdgeFrom(code_template) ==
    [code_template |-> code_template, dependency |-> 0]

\* a node created whether the key is registered or not
add_node_always(tm, key, init_without_graph_idx) ==
    [tm  |-> [tm EXCEPT
                !.conv_graph = graph_add_node(@,
                    [init_without_graph_idx EXCEPT
                        !.graph_idx = node_count(tm.conv_graph) + 1]),
                !.rust_names_map = MapPut(@, key, node_count(tm.conv_graph) + 1)],
     idx |-> node_count(tm.conv_graph) + 1]

\* the node created with the graph index its initial record came with
add_node_keep_graph_idx(tm, key, init_without_graph_idx) ==
    IF key \in DOMAIN tm.rust_names_map
    THEN [tm |-> tm, idx |-> tm.rust_names_map[key]]
    ELSE [tm  |-> [tm EXCEPT
                     !.conv_graph = graph_add_node(@, init_without_graph_idx),
                     !.rust_names_map = MapPut(@, key, node_count(tm.conv_graph) + 1)],
          idx |-> node_count(tm.conv_graph) + 1]

\* typemap.rs:849  the node registered under key, created by init when absent
add_node(tm, key, init_without_graph_idx) ==
    IF key \in DOMAIN tm.rust_names_map
    THEN [tm |-> tm, idx |-> tm.rust_names_map[key]]
    ELSE LET idx == node_count(tm.conv_graph) + 1
         IN  [tm  |-> [tm EXCEPT
                         !.conv_graph = graph_add_node(@,
                             [init_without_graph_idx EXCEPT !.graph_idx = idx]),
                         !.rust_names_map = MapPut(@, key, idx)],
              idx |-> idx]

\* typemap.rs:865
find_or_alloc_rust_type(tm, ty) ==
    add_node(tm, normalize_ty_lifetimes(ty),
             new_without_graph_idx(ty, normalize_ty_lifetimes(ty)))

\* typemap.rs:873
find_or_alloc_rust_type_that_implements(tm, ty, trait_name) ==
    add_node(tm, normalize_ty_lifetimes(ty),
             implements(new_without_graph_idx(ty, normalize_ty_lifetimes(ty)),
                        trait_name))

\* typemap.rs:885
find_or_alloc_rust_type_with_suffix(tm, ty, suffix) ==
    LET name == make_unique_rust_typename(normalize_ty_lifetimes(ty), suffix)
    IN  add_node(tm, name, new_without_graph_idx(ty, name))

\* typemap.rs:450  update_edge: the rule replaces the one of an existing pair
add_conversation_rule(tm, from, to, rule) ==
    [tm EXCEPT !.conv_graph = graph_update_edge(@, from, to, rule)]

\* typemap.rs:304
add_foreign(tm, correspoding_rty, foreign_name) ==
    [tm EXCEPT !.foreign_names_map = MapPut(@, foreign_name, correspoding_rty)]

\* typemap.rs:320
cache_rust_to_foreign_conv(tm, from, to_name, to_id) ==
    [tm EXCEPT
        !.rust_to_foreign_cache =
            MapPut(@, tm.conv_graph.nodes[from].normalized_name, to_name),
        !.foreign_names_map = MapPut(@, to_name, to_id)]

\* typemap.rs:845
register_foreigner_class(tm, class) ==
    [tm EXCEPT !.foreign_classes = Append(@, class)]

\* whether a type expression is a reference (syn::Type::Reference)
IsReference(ty) == Len(ty) > 1 /\ ty[1] \in {"&", "&mut"}

\* the referenced type of a reference: the tokens after & or &mut and a lifetime
RefElem(ty) == Tail(normalize_ty_lifetimes(ty))

\* typemap.rs:401  whether the type, or for a reference the registered type it
\* refers to, carries the tag
is_ty_implements(tm, ty, trait_name) ==
    IF trait_name \in ty.implements THEN TRUE
    ELSE IF IsReference(ty.ty)
    THEN /\ RefElem(ty.ty) \in DOMAIN tm.rust_names_map
         /\ trait_name \in
                tm.conv_graph.nodes[tm.rust_names_map[RefElem(ty.ty)]].implements
    ELSE FALSE

\* ------------------------------------------------------ generic conversions
RECURSIVE SubstParam(_, _)
\* a rule's type pattern with the type parameter replaced by its binding
SubstParam(pattern, binding) ==
    IF pattern = <<>> THEN <<>>
    ELSE (IF Head(pattern) = TyParam THEN binding ELSE <<Head(pattern)>>)
             \o SubstParam(Tail(pattern), binding)

\* the constructors a rule's from_ty puts around its type parameter
PatternPrefix(pattern) == SubSeq(pattern, 1, Len(pattern) - 1)

\* ast::GenericTypeConv::is_conv_possible: the rule's from_ty matches the type,
\* the binding of the parameter satisfies the rule's bound (looked up by name
\* among the registered and the newly created types), and the destination is
\* the rule's to_ty with the parameter replaced; a rule with a foreign hint
\* names its destination with the hint as suffix
is_conv_possible(edge, from, lookup) ==
    LET fty     == normalize_ty_lifetimes(from.ty)
        prefix  == PatternPrefix(edge.from_ty)
        matches == /\ Last(edge.from_ty) = TyParam
                   /\ IsPrefix(prefix, fty)
                   /\ Len(fty) > Len(prefix)
        binding == SubSeq(fty, Len(prefix) + 1, Len(fty))
        bound   == \/ edge.bounds = {}
                   \/ /\ binding \in DOMAIN lookup
                      /\ edge.bounds \subseteq lookup[binding].implements
        to_ty   == SubstParam(edge.to_ty, binding)
        name    == IF edge.to_foreigner_hint = <<>>
                   THEN normalize_ty_lifetimes(to_ty)
                   ELSE make_unique_rust_typename(normalize_ty_lifetimes(to_ty),
                            SubstParam(edge.to_foreigner_hint, binding))
    IN  IF matches /\ bound /\ (Len(to_ty) <= Len(fty) \/ Len(to_ty) <= MaxTyDepth)
        THEN [ok |-> TRUE, to_ty |-> to_ty, to_ty_name |-> name]
        ELSE [ok |-> FALSE, to_ty |-> <<>>, to_ty_name |-> <<>>]

\* -------------------------------------------------------- TypeGraphSnapshot
\* typemap.rs:223
TypeGraphSnapshot_new(conv_graph, rust_names_map) ==
    [conv_graph          |-> conv_graph,
     rust_names_map      |-> rust_names_map,
     new_nodes_names_map |-> EmptyMap,
     new_nodes           |-> <<>>,
     new_edges           |-> <<>>]

\* typemap.rs:233  the node of that name: a registered one, one created by this
\* snapshot, or a new one, which the snapshot records
node_for_ty(sn, ty, ty_name) ==
    IF ty_name \in DOMAIN sn.rust_names_map
    THEN [sn |-> sn, idx |-> sn.rust_names_map[ty_name]]
    ELSE IF ty_name \in DOMAIN sn.new_nodes_names_map
    THEN [sn |-> sn, idx |-> sn.new_nodes_names_map[ty_name]]
    ELSE LET idx == node_count(sn.conv_graph) + 1
         IN  [sn  |-> [sn EXCEPT
                         !.conv_graph = graph_add_node(@,
                             [new_without_graph_idx(ty, ty_name) EXCEPT
                                 !.graph_idx = idx]),
                         !.new_nodes_names_map = MapPut(@, ty_name, idx),
                         !.new_nodes = Append(@, idx)],
              idx |-> idx]

\* typemap.rs:258  the lookup is_conv_possible is given: name -> node record
find_type_by_name(sn) ==
    [n \in (DOMAIN sn.rust_names_map) \cup (DOMAIN sn.new_nodes_names_map) |->
        IF n \in DOMAIN sn.rust_names_map
        THEN sn.conv_graph.nodes[sn.rust_names_map[n]]
        ELSE sn.conv_graph.nodes[sn.new_nodes_names_map[n]]]

\* an edge whether the pair has one or not
snapshot_add_edge_always(sn, from, to, edge) ==
    [sn EXCEPT
        !.conv_graph = graph_add_edge(@, from, to, edge),
        !.new_edges = Append(@, edge_count(sn.conv_graph) + 1)]

\* typemap.rs:269  an edge only where the pair has none; the snapshot records it
snapshot_add_edge(sn, from, to, edge) ==
    IF graph_find_edge(sn.conv_graph, from, to) = 0
    THEN [sn EXCEPT
            !.conv_graph = graph_add_edge(@, from, to, edge),
            !.new_edges = Append(@, edge_count(sn.conv_graph) + 1)]
    ELSE sn

Reverse(s) == [i \in 1..Len(s) |-> s[Len(s) + 1 - i]]

\* the recorded indices walked oldest first
drop_order_forward(recorded) == recorded

\* typemap.rs:284,287  the order in which drop walks the recorded indices
drop_order(recorded) == Reverse(recorded)

RECURSIVE RemoveNodes(_, _, _, _)
\* remove_node for ns[lo], .., ns[hi], one after the other in that order
RemoveNodes(g, ns, lo, hi) ==
    IF lo > hi \/ node_count(g) = 0 THEN g
    ELSE IF lo = hi THEN graph_remove_node(g, ns[lo])
    ELSE RemoveNodes(RemoveNodes(g, ns, lo, (lo + hi) \div 2),
                     ns, (lo + hi) \div 2 + 1, hi)

\* typemap.rs:282  Drop for TypeGraphSnapshot: the graph the snapshot leaves
snapshot_drop(sn) ==
    RemoveNodes(RemoveEdges(sn.conv_graph, drop_order(sn.new_edges),
                            1, Len(sn.new_edges)),
                drop_order(sn.new_nodes), 1, Len(sn.new_nodes))

\* every edge the snapshot created taken for an edge of the path
PossiblePath_new_all(sn, path) ==
    [path_len  |-> Len(path),
     new_edges |-> [i \in 1..Len(sn.new_edges) |->
                      [from      |-> sn.conv_graph.nodes[sn.conv_graph.edges[sn.new_edges[i]].src],
                       to        |-> sn.conv_graph.nodes[sn.conv_graph.edges[sn.new_edges[i]].dst],
                       conv_rule |-> sn.conv_graph.edges[sn.new_edges[i]].w]]]

\* typemap.rs:175  PossiblePath::new: the path's length and, of its edges, those
\* the snapshot created, each with copies of its two node records
PossiblePath_new(sn, path) ==
    LET mine == SelectSeq(path, LAMBDA e : e \in Range(sn.new_edges))
    IN  [path_len  |-> Len(path),
         new_edges |-> [i \in 1..Len(mine) |->
                          [from      |-> sn.conv_graph.nodes[sn.conv_graph.edges[mine[i]].src],
                           to        |-> sn.conv_graph.nodes[sn.conv_graph.edges[mine[i]].dst],
                           conv_rule |-> sn.conv_graph.edges[mine[i]].w]]]

\* ---------------------------------------------------------- try_build_path
\* The state of the exploration is [sn, next_step, done, path, rounds,
\* cur_empty, reach_ok]: the snapshot, the frontier being collected, whether the
\* goal was reached, the path then found, the rounds begun, whether the loop
\* ended on an empty frontier, and whether every frontier so far held only
\* nodes that the start reached when its round began.

\* the exploration ends at the first edge added, whatever the new node reaches
tbp_added_unchecked(start, goal, st, to, sn2) ==
    [st EXCEPT !.sn = sn2,
               !.done = TRUE,
               !.path = find_conversation_path(sn2.conv_graph, start, goal)]

\* typemap.rs:1112  the new node reaches the goal: the path from the start is
\* looked up and the exploration ends; otherwise the node joins the frontier
tbp_added(start, goal, st, to, sn2) ==
    IF has_path_connecting(sn2.conv_graph, to, goal)
    THEN [st EXCEPT !.sn = sn2,
                    !.done = TRUE,
                    !.path = find_conversation_path(sn2.conv_graph, start, goal)]
    ELSE [st EXCEPT !.sn = sn2, !.next_step = @ \cup {to}]

\* typemap.rs:1103  the edge from the frontier node to the rule's target
tbp_target(start, goal, edge, from_ty, st, n) ==
    tbp_added(start, goal, st, n.idx,
              snapshot_add_edge(n.sn, from_ty, n.idx,
                  [code_template |-> edge.code_template,
                   dependency    |-> edge.dependency]))

\* typemap.rs:1090  a rule that applies and leads to another type gets its
\* target node
tbp_possible(start, goal, edge, from_ty, st, poss) ==
    IF ~poss.ok \/ st.sn.conv_graph.nodes[from_ty].normalized_name = poss.to_ty_name
    THEN st
    ELSE tbp_target(start, goal, edge, from_ty, st,
                    node_for_ty(st.sn, poss.to_ty, poss.to_ty_name))

\* typemap.rs:1087  one generic rule tried on one frontier node
tbp_rule(start, goal, edge, from_ty, st) ==
    tbp_possible(start, goal, edge, from_ty, st,
                 is_conv_possible(edge, st.sn.conv_graph.nodes[from_ty],
                                  find_type_by_name(st.sn)))

RECURSIVE tbp_rules(_, _, _, _, _, _)
\* typemap.rs:1086  the loop over generic_edges for one frontier node:
\* generic_edges[k..] are the rules still to try
tbp_rules(start, goal, generic_edges, from_ty, k, st) ==
    IF st.done \/ k > Len(generic_edges) THEN st
    ELSE tbp_rules(start, goal, generic_edges, from_ty, k + 1,
                   tbp_rule(start, goal, generic_edges[k], from_ty, st))

\* the neighbours in both directions join the next frontier
tbp_neighbors_undirected(from_ty, st) ==
    [st EXCEPT !.next_step = @ \cup
        {st.sn.conv_graph.edges[e].dst : e \in Range(OutEdges(st.sn.conv_graph, from_ty))}
        \cup {st.sn.conv_graph.edges[e].src :
                  e \in {x \in 1..Len(st.sn.conv_graph.edges) :
                            st.sn.conv_graph.edges[x].dst = from_ty}}]

\* typemap.rs:1080  the neighbours of a frontier node join the next frontier
tbp_neighbors(from_ty, st) ==
    [st EXCEPT !.next_step = @ \cup
        {st.sn.conv_graph.edges[e].dst : e \in Range(OutEdges(st.sn.conv_graph, from_ty))}]

RECURSIVE tbp_nodes(_, _, _, _, _, _)
\* typemap.rs:1078  the loop over the frontier cur_step (here in index order):
\* todo[k..] are the nodes still to expand
tbp_nodes(start, goal, generic_edges, todo, k, st) ==
    IF st.done \/ k > Len(todo) THEN st
    ELSE tbp_nodes(start, goal, generic_edges, todo, k + 1,
             tbp_rules(start, goal, generic_edges, todo[k], 1,
                       tbp_neighbors(todo[k], st)))

RECURSIVE tbp_steps(_, _, _, _, _, _, _)
RECURSIVE tbp_swap(_, _, _, _, _, _)
\* for step in 0..=max_steps: one round more than the budget
tbp_steps_inclusive(start, goal, generic_edges, max_steps, step, cur_step, st) ==
    IF st.done \/ step > max_steps \/ cur_step = {}
    THEN [st EXCEPT !.cur_empty = (cur_step = {})]
    ELSE tbp_swap(start, goal, generic_edges, max_steps, step,
                  tbp_nodes(start, goal, generic_edges, SetToSeqAsc(cur_step), 1,
                            [st EXCEPT !.rounds = @ + 1,
                                       !.reach_ok = @ /\ cur_step \subseteq
                                           ReachFrom(st.sn.conv_graph, {start})]))

\* typemap.rs:1065  for step in 0..max_steps, stopping at an empty frontier
tbp_steps(start, goal, generic_edges, max_steps, step, cur_step, st) ==
    IF st.done \/ step >= max_steps \/ cur_step = {}
    THEN [st EXCEPT !.cur_empty = (cur_step = {})]
    ELSE tbp_swap(start, goal, generic_edges, max_steps, step,
                  tbp_nodes(start, goal, generic_edges, SetToSeqAsc(cur_step), 1,
                            [st EXCEPT !.rounds = @ + 1,
                                       !.reach_ok = @ /\ cur_step \subseteq
                                           ReachFrom(st.sn.conv_graph, {start})]))

\* typemap.rs:1138  the round is over: the collected frontier becomes cur_step
tbp_swap(start, goal, generic_edges, max_steps, step, st1) ==
    IF st1.done THEN st1
    ELSE tbp_steps(start, goal, generic_edges, max_steps, step + 1,
                   st1.next_step, [st1 EXCEPT !.next_step = {}])

\* the exploration of try_build_path up to its return, the snapshot still open
tbp_explore(start_from, goal_to, conv_graph, rust_names_map, generic_edges, max_steps) ==
    tbp_steps(start_from, goal_to, generic_edges, max_steps, 0, {start_from},
              [sn        |-> TypeGraphSnapshot_new(conv_graph, rust_names_map),
               next_step |-> {},
               done      |-> FALSE,
               path      |-> NoPath,
               rounds    |-> 0,
               cur_empty |-> FALSE,
               reach_ok  |-> TRUE])

\* typemap.rs:1117,1147  what try_build_path returns: the PossiblePath when one
\* was found, and the graph as the released snapshot leaves it.  found with
\* ~expect_ok is the failure of expect("path must exists").
tbp_return(st) ==
    [found      |-> st.done,
     expect_ok  |-> st.done => st.path.ok,
     path       |-> IF st.done THEN PossiblePath_new(st.sn, st.path.edges)
                    ELSE [path_len |-> 0, new_edges |-> <<>>],
     path_edges |-> st.path.edges,
     snapshot   |-> st.sn,
     rounds     |-> st.rounds,
     cur_empty  |-> st.cur_empty,
     reach_ok   |-> st.reach_ok,
     conv_graph |-> snapshot_drop(st.sn)]

\* typemap.rs:1038
try_build_path(start_from, goal_to, conv_graph, rust_names_map, generic_edges, max_steps) ==
    tbp_return(tbp_explore(start_from, goal_to, conv_graph, rust_names_map,
                           generic_edges, max_steps))

\* what a call of try_build_path created and what it found, by names
\* an edge by the names of its ends and its rule
NamedEdge(g, e) ==
    <<g.nodes[g.edges[e].src].normalized_name,
      g.nodes[g.edges[e].dst].normalized_name, g.edges[e].w>>

NamedEdges(g) == {NamedEdge(g, e) : e \in 1..Len(g.edges)}

NodeNames(g) == {g.nodes[i].normalized_name : i \in 1..Len(g.nodes)}

\* what a call of try_build_path created and returned, by name
SpecNodes(r) == {r.snapshot.conv_graph.nodes[i].normalized_name :
                    i \in Range(r.snapshot.new_nodes)}

SpecEdges(r) == {NamedEdge(r.snapshot.conv_graph, e) : e \in Range(r.snapshot.new_edges)}

PathEdges(r) == [i \in 1..Len(r.path_edges) |->
                    NamedEdge(r.snapshot.conv_graph, r.path_edges[i])]

RECURSIVE merge_path_edges(_, _, _)
\* typemap.rs:1030  the loop of merge_path_to_conv_map over new_edges[k..]
merge_path_edges(new_edges, k, acc) ==
    IF k > Len(new_edges) THEN acc
    ELSE LET e  == new_edges[k]
             a  == add_node(acc.tm, e.from.normalized_name, e.from)
             b  == add_node(a.tm, e.to.normalized_name, e.to)
             ok == graph_find_edge(b.tm.conv_graph, a.idx, b.idx) = 0
         IN  merge_path_edges(new_edges, k + 1,
                [tm        |-> [b.tm EXCEPT !.conv_graph =
                                   graph_add_edge(@, a.idx, b.idx, e.conv_rule)],
                 assert_ok |-> acc.assert_ok /\ ok])

\* typemap.rs:1024  commit the new edges of a path, with their nodes
merge_path_to_conv_map(path, conv_map) ==
    merge_path_edges(path.new_edges, 1, [tm |-> conv_map, assert_ok |-> TRUE])

\* typemap.rs:545  the path that was found is committed
build_path_commit(tm, r) ==
    IF r.found
    THEN [merge_path_to_conv_map(r.path, [tm EXCEPT !.conv_graph = r.conv_graph])
             EXCEPT !.assert_ok = @ /\ r.expect_ok] @@ [built |-> r]
    ELSE [tm        |-> [tm EXCEPT !.conv_graph = r.conv_graph],
          assert_ok |-> TRUE,
          built     |-> r]

\* typemap.rs:534  build with the default budget and commit what was found
build_path_if_possible(tm, start_from, goal_to) ==
    build_path_commit(tm,
        try_build_path(start_from, goal_to, tm.conv_graph, tm.rust_names_map,
                       tm.generic_edges, MAX_TRY_BUILD_PATH_STEPS))

\* -------------------------------------------------------------------- merge
\* A dependency is a take-once cell.  An edge's own cell is written in the edge:
\* 0 holds None, OwnDep holds a fragment.  A generic rule's cell is shared with
\* every edge made from the rule: it is a position in dep_cells, TRUE while the
\* fragment has not been taken.
OwnDep == 0 - 1

\* parse::parse: the TypeMap read from the external rules.  The cells of its
\* generic rules are new ones: cell c of the batch becomes cell c + (cells so far).
parse(tm, code) ==
    LET off      == Len(tm.dep_cells)
        reloc(c) == IF c = 0 THEN 0 ELSE c + off
    IN  [code EXCEPT
           !.generic_edges =
               [i \in 1..Len(@) |-> [@[i] EXCEPT !.dependency = reloc(@)]]]

\* typemap.rs:585  entry(normalized_name).or_insert_with: the live node of that
\* name, or a new one that is a copy of the batch's node
graph_node_entry(node_new_data_idx, new_data, data) ==
    add_node(data, new_data.conv_graph.nodes[node_new_data_idx].normalized_name,
             new_data.conv_graph.nodes[node_new_data_idx])

\* typemap.rs:594  the batch node's tags are merged into the live node
merge_node(node_new_data_idx, new_data, n) ==
    [n EXCEPT !.tm.conv_graph.nodes[n.idx] =
        rust_type_merge(@, new_data.conv_graph.nodes[node_new_data_idx])]

\* typemap.rs:596  the foreign name the batch gives the node (the first found)
\* is installed for the live node
insert_foreign_name(node_new_data_idx, new_data, n) ==
    IF \E f \in DOMAIN new_data.foreign_names_map :
           new_data.foreign_names_map[f] = node_new_data_idx
    THEN [n EXCEPT !.tm.foreign_names_map =
             MapPut(@, CHOOSE f \in DOMAIN new_data.foreign_names_map :
                           new_data.foreign_names_map[f] = node_new_data_idx,
                    n.idx)]
    ELSE n

\* the same without the merge of the tags
get_graph_node_idx_keep_tags(node_new_data_idx, new_data, data) ==
    insert_foreign_name(node_new_data_idx, new_data,
        graph_node_entry(node_new_data_idx, new_data, data))

\* typemap.rs:576  the live node for a node of the batch: found or created by
\* normalized name, the batch node's tags merged in, its foreign name installed
get_graph_node_idx(node_new_data_idx, new_data, data) ==
    insert_foreign_name(node_new_data_idx, new_data,
        merge_node(node_new_data_idx, new_data,
            graph_node_entry(node_new_data_idx, new_data, data)))

\* the same with the batch's edge added whether the live pair has one or not
merge_edge_add(data, self_src, self_target, rule) ==
    [data EXCEPT !.conv_graph = graph_add_edge(@, self_src, self_target, rule)]

\* the same with the batch's rule put in the place of the live one
merge_edge_replace(data, self_src, self_target, rule) ==
    [data EXCEPT !.conv_graph = graph_update_edge(@, self_src, self_target, rule)]

\* typemap.rs:619  one edge of the batch: kept out when the live pair has an
\* edge, installed otherwise
merge_edge(data, self_src, self_target, rule) ==
    IF graph_find_edge(data.conv_graph, self_src, self_target) # 0
    THEN data
    ELSE [data EXCEPT !.conv_graph = graph_add_edge(@, self_src, self_target, rule)]

RECURSIVE process_edges(_, _, _, _, _)
\* typemap.rs:616  the loop over the batch node's outgoing edges out[k..]
process_edges(new_data, self_src, out, k, data) ==
    IF k > Len(out) THEN data
    ELSE LET e == new_data.conv_graph.edges[out[k]]
             t == get_graph_node_idx(e.dst, new_data, data)
         IN  process_edges(new_data, self_src, out, k + 1,
                           merge_edge(t.tm, self_src, t.idx, e.w))

\* typemap.rs:606
process_new_node(new_data_idx, new_data, data) ==
    LET s == get_graph_node_idx(new_data_idx, new_data, data)
    IN  process_edges(new_data, s.idx, OutEdges(new_data.conv_graph, new_data_idx),
                      1, s.tm)

RECURSIVE merge_nodes(_, _, _)
\* typemap.rs:637  for node in new_data.conv_graph.node_indices()
merge_nodes(new_data, n, data) ==
    IF n > node_count(new_data.conv_graph) THEN data
    ELSE merge_nodes(new_data, n + 1, process_new_node(n, new_data, data))

\* the batch's utility code and generic rules join those held, except the
\* utility code that is held already
merge_append_new_only(data, new_data) ==
    [data EXCEPT !.utils_code =
                     @ \o SelectSeq(new_data.utils_code,
                                    LAMBDA u : u \notin Range(data.utils_code)),
                 !.generic_edges = @ \o new_data.generic_edges]

\* typemap.rs:640,642  the batch's utility code and generic rules are appended
merge_append(data, new_data) ==
    [data EXCEPT !.utils_code = @ \o new_data.utils_code,
                 !.generic_edges = @ \o new_data.generic_edges]

\* typemap.rs:559  TypeMap::merge
merge(tm, code) ==
    LET new_data == parse(tm, code)
        cells    == [tm EXCEPT !.dep_cells =
                        @ \o [i \in 1..code.n_cells |-> TRUE]]
    IN  merge_append(merge_nodes(new_data, 1, cells), new_data)

\* ------------------------------------------------------- convert_rust_types
RECURSIVE convert_edges(_, _, _)
\* the same loop with the code of each edge put before the code so far
convert_edges_prepend(path, k, acc) ==
    IF k > Len(path) THEN acc
    ELSE LET g      == acc.tm.conv_graph
             edge   == g.edges[path[k]]
             dep    == edge.w.dependency
             target == g.nodes[edge.dst].normalized_name
             own    == dep = OwnDep
             shared == dep > 0 /\ acc.tm.dep_cells[dep]
             code   == <<edge.w.code_template, unpack_unique_typename(target)>>
         IN  convert_edges(path, k + 1,
               [tm   |-> IF own
                         THEN [acc.tm EXCEPT !.conv_graph.edges[path[k]].w.dependency = 0]
                         ELSE IF shared
                         THEN [acc.tm EXCEPT !.dep_cells[dep] = FALSE]
                         ELSE acc.tm,
                code_deps |-> IF own THEN Append(acc.code_deps, <<"edge", path[k]>>)
                              ELSE IF shared THEN Append(acc.code_deps, <<"rule", dep>>)
                              ELSE acc.code_deps,
                ret_code  |-> <<code>> \o acc.ret_code])

RECURSIVE convert_edges_keep(_, _, _)
\* the same loop with every fragment read and left in its cell
convert_edges_keep(path, k, acc) ==
    IF k > Len(path) THEN acc
    ELSE LET edge == acc.tm.conv_graph.edges[path[k]]
             dep  == edge.w.dependency
         IN  convert_edges_keep(path, k + 1,
               [acc EXCEPT
                  !.code_deps = IF dep = OwnDep THEN Append(@, <<"edge", path[k]>>)
                                ELSE IF dep > 0 THEN Append(@, <<"rule", dep>>)
                                ELSE @,
                  !.ret_code  = Append(@, <<edge.w.code_template,
                                    unpack_unique_typename(
                                        acc.tm.conv_graph.nodes[edge.dst].normalized_name)>>)])

\* typemap.rs:502  the loop over the path's edges path[k..]: the dependency of
\* each edge is taken when its cell still holds one, its template expanded
\* with the target's name without suffix
convert_edges(path, k, acc) ==
    IF k > Len(path) THEN acc
    ELSE LET g      == acc.tm.conv_graph
             edge   == g.edges[path[k]]
             dep    == edge.w.dependency
             target == g.nodes[edge.dst].normalized_name
             own    == dep = OwnDep
             shared == dep > 0 /\ acc.tm.dep_cells[dep]
             code   == <<edge.w.code_template, unpack_unique_typename(target)>>
         IN  convert_edges(path, k + 1,
               [tm   |-> IF own
                         THEN [acc.tm EXCEPT !.conv_graph.edges[path[k]].w.dependency = 0]
                         ELSE IF shared
                         THEN [acc.tm EXCEPT !.dep_cells[dep] = FALSE]
                         ELSE acc.tm,
                code_deps |-> IF own THEN Append(acc.code_deps, <<"edge", path[k]>>)
                              ELSE IF shared THEN Append(acc.code_deps, <<"rule", dep>>)
                              ELSE acc.code_deps,
                ret_code  |-> Append(acc.ret_code, code)])

\* typemap.rs:500  the conversion code of the path, or the error without one
convert_path(tm, direct, assert_ok, path) ==
    IF path.ok
    THEN [ok |-> TRUE, direct |-> direct, assert_ok |-> assert_ok,
          path |-> path.edges]
            @@ convert_edges(path.edges, 1,
                   [tm |-> tm, code_deps |-> <<>>, ret_code |-> <<>>])
    ELSE [ok |-> FALSE, direct |-> direct, assert_ok |-> assert_ok,
          path |-> <<>>, tm |-> tm, code_deps |-> <<>>, ret_code |-> <<>>]

\* typemap.rs:495  the path is looked up again after the build
convert_built(from, to, b) ==
    convert_path(b.tm, FALSE, b.assert_ok, find_path(b.tm.conv_graph, from, to))

\* a direct path or none: nothing is built
convert_found_direct_only(tm, from, to, path) ==
    convert_path(tm, TRUE, TRUE, path)

\* typemap.rs:491  a direct path is used as it is; without one a path is built
convert_found(tm, from, to, path) ==
    IF path.ok THEN convert_path(tm, TRUE, TRUE, path)
    ELSE convert_built(from, to, build_path_if_possible(tm, from, to))

\* typemap.rs:483  the direct path, or the one built with the default budget
convert_rust_types(tm, from, to) ==
    convert_found(tm, from, to, find_path(tm.conv_graph, from, to))

\* ------------------------------------------- map_through_conversation_to_foreign
RECURSIVE IterOrder(_)
\* the order in which a hash map or hash set is walked: some fixed order
IterOrder(S) ==
    IF S = {} THEN <<>>
    ELSE LET x == CHOOSE y \in S : TRUE
         IN  <<x>> \o IterOrder(S \ {x})

\* the closure the callers pass as calc_this_type_for_method (typemap.rs:1229):
\* the class's constructor return type, <<>> when it has none
calc_this_type_for_method(fc) == fc.constructor_ret_type

\* typemap.rs:826  the first declared class whose this-type is this type;
\* 0 when there is none
find_foreigner_class_with_such_this_type(tm, this_ty) ==
    LET hits == {i \in 1..Len(tm.foreign_classes) :
                    /\ calc_this_type_for_method(tm.foreign_classes[i]) # <<>>
                    /\ normalize_ty_lifetimes(
                           calc_this_type_for_method(tm.foreign_classes[i]))
                         = normalize_ty_lifetimes(this_ty)}
    IN  IF hits = {} THEN 0 ELSE CHOOSE i \in hits : \A j \in hits : i <= j

\* the same with the endpoint of the longer path kept
min_path_longest(min_path, name, graph_idx, path) ==
    IF ~path.ok THEN min_path
    ELSE IF min_path.found /\ ~(Len(path.edges) > min_path.len) THEN min_path
    ELSE [found |-> TRUE, len |-> Len(path.edges), idx |-> graph_idx, name |-> name]

\* typemap.rs:696  min_path after one endpoint: the endpoint replaces it when it
\* has a path and that path is shorter (cur.0 < x.0), or when there was none
min_path_with(min_path, name, graph_idx, path) ==
    IF ~path.ok THEN min_path
    ELSE IF min_path.found /\ ~(Len(path.edges) < min_path.len) THEN min_path
    ELSE [found |-> TRUE, len |-> Len(path.edges), idx |-> graph_idx, name |-> name]

RECURSIVE map_direct(_, _, _, _, _, _)
\* typemap.rs:685  the direct search over the endpoints names[k..]
map_direct(tm, rust_ty, direction, names, k, min_path) ==
    IF k > Len(names) THEN min_path
    ELSE map_direct(tm, rust_ty, direction, names, k + 1,
             min_path_with(min_path, names[k], tm.foreign_names_map[names[k]],
                 find_conversation_path(tm.conv_graph,
                     IF direction = "Outgoing" THEN rust_ty
                     ELSE tm.foreign_names_map[names[k]],
                     IF direction = "Outgoing" THEN tm.foreign_names_map[names[k]]
                     ELSE rust_ty)))

\* a candidate for every registered type that satisfies the rule's bound: a
\* type without a declared class stands in under its own name
new_foreign_types_unbacked(tm) ==
    {[ty     |-> tm.generic_edges[x[1]].to_ty,
      suffix |-> SubstParam(tm.generic_edges[x[1]].to_foreigner_hint,
                            tm.conv_graph.nodes[x[2]].normalized_name),
      foreign_name |->
          SubstParam(tm.generic_edges[x[1]].to_foreigner_hint,
                     tm.conv_graph.nodes[x[2]].normalized_name)] :
        x \in {y \in (1..Len(tm.generic_edges))
                       \X {tm.rust_names_map[k] : k \in DOMAIN tm.rust_names_map} :
                  /\ tm.generic_edges[y[1]].to_foreigner_hint # <<>>
                  /\ tm.generic_edges[y[1]].bounds # {}
                  /\ tm.generic_edges[y[1]].bounds
                        \subseteq tm.conv_graph.nodes[y[2]].implements}}

\* typemap.rs:729  the candidate endpoints of the generic rules with a foreign
\* hint: one for each registered type that satisfies the rule's bound and has
\* a declared class
new_foreign_types(tm) ==
    {[ty     |-> tm.generic_edges[e].to_ty,
      suffix |-> SubstParam(tm.generic_edges[e].to_foreigner_hint,
                            tm.conv_graph.nodes[n].normalized_name),
      foreign_name |->
          SubstParam(tm.generic_edges[e].to_foreigner_hint,
              <<tm.foreign_classes[
                  find_foreigner_class_with_such_this_type(
                      tm, tm.conv_graph.nodes[n].ty)].name>>)] :
        <<e, n>> \in
          {x \in (1..Len(tm.generic_edges)) \X {tm.rust_names_map[k] : k \in DOMAIN tm.rust_names_map} :
              /\ tm.generic_edges[x[1]].to_foreigner_hint # <<>>
              /\ tm.generic_edges[x[1]].bounds # {}
              /\ tm.generic_edges[x[1]].bounds \subseteq tm.conv_graph.nodes[x[2]].implements
              /\ find_foreigner_class_with_such_this_type(
                     tm, tm.conv_graph.nodes[x[2]].ty) # 0}}

RECURSIVE map_synthesize(_, _, _)
\* typemap.rs:761  each candidate gets its node, named with the suffix, and its
\* entry in foreign_names_map
map_synthesize(tm, cands, k) ==
    IF k > Len(cands) THEN tm
    ELSE LET n == find_or_alloc_rust_type_with_suffix(tm, cands[k].ty, cands[k].suffix)
         IN  map_synthesize(
                 [n.tm EXCEPT !.foreign_names_map =
                     MapPut(@, cands[k].foreign_name, n.idx)],
                 cands, k + 1)

\* typemap.rs:800  a candidate that was found joins possible_paths; the graph
\* is the one the candidate's snapshot left
possible_paths_with(acc, max_steps, name, graph_idx, r) ==
    [conv_graph     |-> r.conv_graph,
     expect_ok      |-> acc.expect_ok /\ r.expect_ok,
     tried          |-> acc.tried + 1,
     budget         |-> max_steps,
     spec_nodes     |-> acc.spec_nodes \cup SpecNodes(r),
     spec_edges     |-> acc.spec_edges \cup SpecEdges(r),
     possible_paths |->
         IF r.found
         THEN Append(acc.possible_paths,
                  [path |-> r.path, name |-> name, idx |-> graph_idx,
                   path_edges |-> PathEdges(r)])
         ELSE acc.possible_paths]

RECURSIVE map_build_names(_, _, _, _, _, _, _)
\* typemap.rs:776  one budget: try_build_path for each endpoint names[k..]
map_build_names(tm, from, direction, max_steps, names, k, acc) ==
    IF k > Len(names) THEN acc
    ELSE map_build_names(tm, from, direction, max_steps, names, k + 1,
             possible_paths_with(acc, max_steps, names[k], tm.foreign_names_map[names[k]],
                 try_build_path(
                     IF direction = "Outgoing" THEN from
                     ELSE tm.foreign_names_map[names[k]],
                     IF direction = "Outgoing" THEN tm.foreign_names_map[names[k]]
                     ELSE from,
                     acc.conv_graph, tm.rust_names_map, tm.generic_edges, max_steps)))

RECURSIVE map_build_steps(_, _, _, _, _, _)
\* typemap.rs:775  for max_steps in 1..=MAX_TRY_BUILD_PATH_STEPS, until one
\* budget has a success
map_build_steps(tm, from, direction, names, max_steps, acc) ==
    IF max_steps > MAX_TRY_BUILD_PATH_STEPS \/ acc.possible_paths # <<>> THEN acc
    ELSE map_build_steps(tm, from, direction, names, max_steps + 1,
             map_build_names(tm, from, direction, max_steps, names, 1, acc))

\* the first of the longest candidates
max_by_key(possible_paths) ==
    possible_paths[CHOOSE i \in 1..Len(possible_paths) :
        /\ \A j \in 1..Len(possible_paths) :
               possible_paths[i].path.path_len >= possible_paths[j].path.path_len
        /\ \A j \in 1..(i - 1) :
               possible_paths[j].path.path_len < possible_paths[i].path.path_len]

\* Iterator::min_by_key(|pp| pp.0.len()): the first of the shortest
min_by_key(possible_paths) ==
    possible_paths[CHOOSE i \in 1..Len(possible_paths) :
        /\ \A j \in 1..Len(possible_paths) :
               possible_paths[i].path.path_len <= possible_paths[j].path.path_len
        /\ \A j \in 1..(i - 1) :
               possible_paths[j].path.path_len > possible_paths[i].path.path_len]

NotFound == [found |-> FALSE, name |-> <<>>, idx |-> 0]

\* what the mapper returns: how the answer was found ("cache", "direct",
\* "built" or "none"), the foreign name and its node, and the TypeMap it leaves
map_result(how, tm, name, idx, path_len) ==
    [how |-> how, found |-> how # "none", tm |-> tm, assert_ok |-> TRUE,
     name |-> name, idx |-> idx, path_len |-> path_len, budget |-> 0,
     tried |-> 0, n_found |-> 0, new_edges |-> <<>>, spec_nodes |-> {},
     spec_edges |-> {}, path_edges |-> <<>>]

\* typemap.rs:808  the first of the shortest candidates is committed
map_commit(tm, built, win) ==
    [map_result("built", tm, win.name, win.idx, win.path.path_len) EXCEPT
        !.budget = built.budget, !.tried = built.tried,
        !.n_found = Len(built.possible_paths),
        !.new_edges = win.path.new_edges, !.path_edges = win.path_edges,
        !.spec_nodes = built.spec_nodes, !.spec_edges = built.spec_edges,
        !.assert_ok = built.expect_ok]

\* typemap.rs:808  merge_path_to_conv_map(pp, self) for the winner
map_merged(built, win, merged) ==
    [map_commit(merged.tm, built, win) EXCEPT !.assert_ok = @ /\ merged.assert_ok]

\* the winner is returned and its path is left uncommitted
map_built_uncommitted(tm3, built) ==
    IF built.possible_paths # <<>>
    THEN map_merged(built, min_by_key(built.possible_paths),
             [tm |-> [tm3 EXCEPT !.conv_graph = built.conv_graph],
              assert_ok |-> TRUE])
    ELSE [map_result("none", [tm3 EXCEPT !.conv_graph = built.conv_graph], <<>>, 0, 0)
             EXCEPT !.budget = built.budget, !.tried = built.tried,
                    !.spec_nodes = built.spec_nodes, !.spec_edges = built.spec_edges,
                    !.assert_ok = built.expect_ok]

\* typemap.rs:807  the winner of the candidates, or no answer
map_built(tm3, built) ==
    IF built.possible_paths # <<>>
    THEN map_merged(built, min_by_key(built.possible_paths),
             merge_path_to_conv_map(min_by_key(built.possible_paths).path,
                 [tm3 EXCEPT !.conv_graph = built.conv_graph]))
    ELSE [map_result("none", [tm3 EXCEPT !.conv_graph = built.conv_graph], <<>>, 0, 0)
             EXCEPT !.budget = built.budget, !.tried = built.tried,
                    !.spec_nodes = built.spec_nodes, !.spec_edges = built.spec_edges,
                    !.assert_ok = built.expect_ok]

\* typemap.rs:773  path building toward every endpoint, the synthesized ones
\* included
map_build(tm3, rust_ty, direction) ==
    map_built(tm3,
        map_build_steps(tm3, rust_ty, direction,
            IterOrder(DOMAIN tm3.foreign_names_map), 1,
            [conv_graph |-> tm3.conv_graph, expect_ok |-> TRUE, tried |-> 0,
             budget |-> 0, spec_nodes |-> {}, spec_edges |-> {},
             possible_paths |-> <<>>]))

\* the answer of the direct search, or none: nothing is built
map_after_direct_only(tm, rust_ty, direction, min_path) ==
    IF min_path.found
    THEN map_result("direct", tm, min_path.name, min_path.idx, min_path.len)
    ELSE map_result("none", tm, <<>>, 0, 0)

\* typemap.rs:708  the answer of the direct search, or synthesis and building
map_after_direct(tm, rust_ty, direction, min_path) ==
    IF min_path.found
    THEN map_result("direct", tm, min_path.name, min_path.idx, min_path.len)
    ELSE map_build(map_synthesize(tm, IterOrder(new_foreign_types(tm)), 1),
                   rust_ty, direction)

\* the cached answer taken for either direction
is_cached_any_direction(tm, rust_ty, direction) ==
    /\ tm.conv_graph.nodes[rust_ty].normalized_name \in DOMAIN tm.rust_to_foreign_cache
    /\ tm.rust_to_foreign_cache[tm.conv_graph.nodes[rust_ty].normalized_name]
          \in DOMAIN tm.foreign_names_map

\* typemap.rs:658  the cached answer: Outgoing only, and only while the cached
\* foreign name is still known
is_cached(tm, rust_ty, direction) ==
    /\ direction = "Outgoing"
    /\ tm.conv_graph.nodes[rust_ty].normalized_name \in DOMAIN tm.rust_to_foreign_cache
    /\ tm.rust_to_foreign_cache[tm.conv_graph.nodes[rust_ty].normalized_name]
          \in DOMAIN tm.foreign_names_map

\* typemap.rs:647  the foreign counterpart of rust_ty: from the cache, by direct
\* search, or by path building toward the old and the synthesized endpoints
map_through_conversation_to_foreign(tm, rust_ty, direction) ==
    IF is_cached(tm, rust_ty, direction)
    THEN map_result("cache", tm,
             tm.rust_to_foreign_cache[tm.conv_graph.nodes[rust_ty].normalized_name],
             tm.foreign_names_map[
                 tm.rust_to_foreign_cache[tm.conv_graph.nodes[rust_ty].normalized_name]],
             0)
    ELSE map_after_direct(tm, rust_ty, direction,
             map_direct(tm, rust_ty, direction,
                        IterOrder(DOMAIN tm.foreign_names_map), 1, NotFound))

\* ------------------------------------------------------------------- inputs
\* the type expressions handed to the allocation entry points
AllocTypes ==
    { <<"Foo">>, <<"&mut", "Foo">>, <<"&", Lifetime, "Foo">>, <<"jlong">>,
      <<"&mut", "Box", "Foo">> }

Traits == {"SwigForeignClass"}

\* types registered with a capability, and types allocated with a suffix
ImplTypes == { <<"Foo">> }

SuffixTypes == { <<"jobject">> }

Suffixes == { <<"Foo">> }

\* the rules handed to add_conversation_rule
Rules ==
    { TypeConvEdgeFrom("conv_a"),
      [code_template |-> "conv_b", dependency |-> OwnDep] }

ForeignNames == { <<"long">> }

\* the pairs of types add_conversation_rule is called for
RulePairs ==
    { << <<"jboolean">>, <<"bool">> >>, << <<"Foo">>, <<"jlong">> >> }

\* the types add_foreign gives a foreign name
ForeignTypes == { <<"jlong">>, <<"Foo">> }

\* the pairs of types a conversion is asked for
PathPairs ==
    { << <<"&mut", "Box", "Foo">>, <<"&", "Foo">> >>,
      << <<"Foo">>, <<"&mut", "Box", "Foo">> >>,
      << <<"jboolean">>, <<"jboolean">> >>,
      << <<"Foo">>, <<"jlong">> >>,
      << <<"jlong">>, <<"Foo">> >>,
      << <<"jboolean">>, <<"jlong">> >>,
      << <<"jboolean">>, <<"bool">> >>,
      << <<"&mut", "Rc", "RefCell", "Foo">>, <<"&mut", "Foo">> >>,
      << <<"&", "Rc", "Foo">>, <<"&", "Foo">> >> }

\* the pairs of a type and the type of the foreign name cached for it
CachePairs ==
    { << <<"Foo">>, <<"jlong">> >>, << <<"jboolean">>, <<"bool">> >> }

\* the types a foreign type is asked for
MapTypes ==
    { <<"Foo">>, <<"&mut", "Box", "Foo">>, <<"bool">>, <<"jlong">>,
      <<"&mut", "Rc", "RefCell", "Foo">> }

Directions == {"Outgoing", "Incoming"}

\* the budgets try_build_path is called with
StepBudgets == {0, 1, 2, MAX_TRY_BUILD_PATH_STEPS}

\* the empty rule set
NoRules == SubSeq(default_rules, 1, 0)

\* declared classes (types.rs:13): name, self type, constructor return type
Classes ==
    { [name |-> "Foo", self_type |-> <<"Foo">>, constructor_ret_type |-> <<"Foo">>] }

\* a node record of an external rule batch
BatchNode(ty, tags, idx) ==
    [ty |-> ty, normalized_name |-> normalize_ty_lifetimes(ty),
     implements |-> tags, graph_idx |-> idx]

BatchEdge(a, b, code_template, dependency) ==
    [src |-> a, dst |-> b,
     w |-> [code_template |-> code_template, dependency |-> dependency]]

\* the rules of typemap.rs:1160 (test_merge): jboolean <-> bool, and the
\* foreign name boolean for jboolean
BatchBool ==
    [id_of_code |-> "bool",
     conv_graph |->
        [nodes |-> << BatchNode(<<"jboolean">>, {}, 1), BatchNode(<<"bool">>, {}, 2) >>,
         edges |-> << BatchEdge(1, 2, "swig_into", 0),
                      BatchEdge(2, 1, "swig_from", 0) >>],
     foreign_names_map |-> [f \in {<<"boolean">>} |-> 1],
     utils_code        |-> <<"helper1", "SwigInto">>,
     generic_edges     |-> <<>>,
     n_cells           |-> 0]

\* rules that overlap BatchBool: another rule for jboolean -> bool, a new edge
\* bool -> jlong, a capability for bool and one for Foo, and a dependency on
\* an edge
BatchBool2 ==
    [id_of_code |-> "bool2",
     conv_graph |->
        [nodes |-> << BatchNode(<<"bool">>, {"SwigFrom"}, 1),
                      BatchNode(<<"jboolean">>, {}, 2),
                      BatchNode(<<"jlong">>, {}, 3),
                      BatchNode(<<"Foo">>, {"SwigFrom"}, 4) >>,
         edges |-> << BatchEdge(2, 1, "other_into", OwnDep),
                      BatchEdge(1, 3, "bool_to_jlong", 0),
                      BatchEdge(2, 3, "widen", 0) >>],
     foreign_names_map |-> [f \in {<<"long">>} |-> 3],
     utils_code        |-> <<"helper2">>,
     generic_edges     |-> <<>>,
     n_cells           |-> 0]

\* rules about a foreign class: Foo carries SwigForeignClass, jlong -> &Foo,
\* and a generic rule with a bound, a foreign hint and a dependency
BatchClass ==
    [id_of_code |-> "class",
     conv_graph |->
        [nodes |-> << BatchNode(<<"Foo">>, {"SwigForeignClass"}, 1),
                      BatchNode(<<"jlong">>, {}, 2),
                      BatchNode(<<"&mut", "Box", "Foo">>, {}, 3),
                      BatchNode(<<"&", "Foo">>, {}, 4) >>,
         edges |-> << BatchEdge(2, 1, "jlong_to_foo", 0),
                      BatchEdge(4, 2, "ref_foo_to_jlong", 0) >>],
     foreign_names_map |-> [f \in {<<"long">>} |-> 2],
     utils_code        |-> <<"SwigForeignClass">>,
     generic_edges     |->
        << [from_ty |-> <<TyParam>>, to_ty |-> <<"jobject">>,
            bounds |-> {"SwigForeignClass"}, to_foreigner_hint |-> <<TyParam>>,
            code_template |-> "object_to_jobject", dependency |-> 1] >>,
     n_cells           |-> 1]

Batches == {BatchBool, BatchBool2, BatchClass}

\* the rules a generator loads before anything else (typemap.rs:1280, the
\* include file of the test): jboolean <-> bool with a dependency on the
\* first, jboolean -> jlong, the foreign names boolean and long, and generic
\* rules for Rc, RefCell and RefMut and for the objects of a foreign class
BatchJni ==
    [id_of_code |-> "jni",
     conv_graph |->
        [nodes |-> << BatchNode(<<"jboolean">>, {}, 1),
                      BatchNode(<<"bool">>, {}, 2),
                      BatchNode(<<"jlong">>, {}, 3) >>,
         edges |-> << BatchEdge(1, 2, "swig_into", OwnDep),
                      BatchEdge(2, 1, "swig_from", 0),
                      BatchEdge(1, 3, "widen", 0) >>],
     foreign_names_map |-> [f \in {<<"boolean">>, <<"long">>} |->
                               IF f = <<"boolean">> THEN 1 ELSE 3],
     utils_code        |-> <<"SwigDeref", "SwigDerefMut">>,
     generic_edges     |->
        << [simple_new(<<"&", "Rc", TyParam>>, <<"&", TyParam>>, "swig_deref")
               EXCEPT !.dependency = 1],
           simple_new(<<"&", "RefCell", TyParam>>, <<"RefMut", TyParam>>, "swig_from"),
           simple_new(<<"RefMut", TyParam>>, <<"&mut", TyParam>>, "swig_deref_mut"),
           [from_ty |-> <<TyParam>>, to_ty |-> <<"jobject">>,
            bounds |-> {"SwigForeignClass"}, to_foreigner_hint |-> <<TyParam>>,
            code_template |-> "object_to_jobject", dependency |-> 2] >>,
     n_cells           |-> 2]

\* the types the set-up of typemap.rs:1287-1301 and 1321-1322 allocates
LoadedTypes ==
    << <<"&mut", "Rc", "RefCell", "Foo">>, <<"&mut", "Foo">>, <<"&", "Rc", "Foo">>,
       <<"&", "Foo">> >>

RECURSIVE alloc_types(_, _, _)
\* find_or_alloc_rust_type for each of tys[k..]
alloc_types(tm, tys, k) ==
    IF k > Len(tys) THEN tm
    ELSE alloc_types(find_or_alloc_rust_type(tm, tys[k]).tm, tys, k + 1)

\* typemap.rs:1278-1301  the TypeMap after the set-up of test_try_build_path:
\* the rules are merged, Foo is allocated as a foreign class and declared, the
\* types of the conversions are allocated, and & Foo is given its rule to jlong
LoadedMap ==
    LET tm1 == find_or_alloc_rust_type_that_implements(
                   merge(TypeMapDefault, BatchJni), <<"Foo">>, "SwigForeignClass").tm
        tm2 == alloc_types(
                   register_foreigner_class(tm1, CHOOSE c \in Classes : c.name = "Foo"),
                   LoadedTypes, 1)
    IN  add_conversation_rule(tm2, tm2.rust_names_map[<<"&", "Foo">>],
            tm2.rust_names_map[<<"jlong">>], TypeConvEdgeFrom("ref_to_jlong"))

\* -------------------------------------------------------------------- state
VARIABLES
    conv_graph,             \* TypeMap.conv_graph
    foreign_names_map,      \* TypeMap.foreign_names_map
    rust_names_map,         \* TypeMap.rust_names_map
    utils_code,             \* TypeMap.utils_code
    generic_edges,          \* TypeMap.generic_edges
    rust_to_foreign_cache,  \* TypeMap.rust_to_foreign_cache
    foreign_classes,        \* TypeMap.foreign_classes
    dep_cells,              \* the shared dependency cells of the generic rules
    emitted,                \* the dependency fragments the conversions returned so far
    last,                   \* the operation just performed and what it returned
    nops                    \* operations performed so far

vars == <<conv_graph, foreign_names_map, rust_names_map, utils_code, generic_edges,
          rust_to_foreign_cache, foreign_classes, dep_cells, emitted, last, nops>>

\* the TypeMap the variables hold
Self ==
    [conv_graph            |-> conv_graph,
     foreign_names_map     |-> foreign_names_map,
     rust_names_map        |-> rust_names_map,
     utils_code            |-> utils_code,
     generic_edges         |-> generic_edges,
     rust_to_foreign_cache |-> rust_to_foreign_cache,
     foreign_classes       |-> foreign_classes,
     dep_cells             |-> dep_cells]

\* the variables take the fields of tm
Install(tm) ==
    /\ conv_graph' = tm.conv_graph
    /\ foreign_names_map' = tm.foreign_names_map
    /\ rust_names_map' = tm.rust_names_map
    /\ utils_code' = tm.utils_code
    /\ generic_edges' = tm.generic_edges
    /\ rust_to_foreign_cache' = tm.rust_to_foreign_cache
    /\ foreign_classes' = tm.foreign_classes
    /\ dep_cells' = tm.dep_cells

NodeIds == 1..node_count(conv_graph)

\* the rule sets try_build_path is called with: the TypeMap's, and the empty one
RuleSets == {generic_edges, NoRules}

\* the registered node of a type expression
Registered(ty) == normalize_ty_lifetimes(ty) \in DOMAIN rust_names_map

NodeOf(ty) == rust_names_map[normalize_ty_lifetimes(ty)]

\* the pairs of S whose two types are registered, as pairs of nodes
NodePairs(S) ==
    {<<NodeOf(p[1]), NodeOf(p[2])>> : p \in {q \in S : Registered(q[1]) /\ Registered(q[2])}}

NodesOf(S) == {NodeOf(t) : t \in {u \in S : Registered(u)}}

\* the record of an operation before anything is filled in
NoObservation ==
    [op |-> "init", ok |-> TRUE, idx |-> 0, from |-> 0, to |-> 0, name |-> <<>>,
     existed |-> FALSE, pre_nodes |-> 0, pre_edges |-> 0,
     spec_nodes |-> {}, spec_edges |-> {}, path_edges |-> <<>>,
     code_deps |-> <<>>, n_spec |-> 0, panic |-> FALSE, info |-> "",
     dir |-> "", budget |-> 0, rounds |-> 0, cur_empty |-> FALSE, n_rules |-> 0,
     tried |-> 0, n_found |-> 0, path |-> <<>>, ret_code |-> <<>>,
     items |-> [hi |-> 0, lo |-> 0], calls |-> <<>>,
     reach_ok |-> TRUE, expect_ok |-> TRUE,
     class |-> [name |-> "", methods |-> <<>>, self_type |-> <<>>,
                constructor_ret_type |-> <<>>]]

\* the record of an operation; each action fills in what it observed
Observed(op) ==
    [NoObservation EXCEPT !.op = op, !.pre_nodes = node_count(conv_graph),
                          !.pre_edges = edge_count(conv_graph)]

\* the fragments a call returned join those returned before
Emits(code_deps) == emitted' = emitted \o code_deps

\* the state after TypeMap::default()
Init ==
    /\ conv_graph = TypeMapDefault.conv_graph
    /\ foreign_names_map = TypeMapDefault.foreign_names_map
    /\ rust_names_map = TypeMapDefault.rust_names_map
    /\ utils_code = TypeMapDefault.utils_code
    /\ generic_edges = TypeMapDefault.generic_edges
    /\ rust_to_foreign_cache = TypeMapDefault.rust_to_foreign_cache
    /\ foreign_classes = TypeMapDefault.foreign_classes
    /\ dep_cells = TypeMapDefault.dep_cells
    /\ emitted = <<>>
    /\ last = NoObservation
    /\ nops = 0

Step == nops < MaxOps /\ nops' = nops + 1

\* ------------------------------------------------------------------ actions
FindOrAllocRustType ==
    \E ty \in AllocTypes :
        LET r == find_or_alloc_rust_type(Self, ty)
        IN  /\ Step
            /\ Install(r.tm)
            /\ Emits(<<>>)
            /\ last' = [Observed("find_or_alloc_rust_type") EXCEPT
                          !.idx = r.idx,
                          !.name = normalize_ty_lifetimes(ty),
                          !.existed = normalize_ty_lifetimes(ty) \in NodeNames(conv_graph)]

FindOrAllocRustTypeThatImplements ==
    \E ty \in ImplTypes, trait_name \in Traits :
        LET r == find_or_alloc_rust_type_that_implements(Self, ty, trait_name)
        IN  /\ Step
            /\ Install(r.tm)
            /\ Emits(<<>>)
            /\ last' = [Observed("find_or_alloc_rust_type_that_implements") EXCEPT
                          !.idx = r.idx,
                          !.name = normalize_ty_lifetimes(ty),
                          !.info = trait_name,
                          !.existed = normalize_ty_lifetimes(ty) \in NodeNames(conv_graph)]

FindOrAllocRustTypeWithSuffix ==
    \E ty \in SuffixTypes, suffix \in Suffixes :
        LET r == find_or_alloc_rust_type_with_suffix(Self, ty, suffix)
            n == make_unique_rust_typename(normalize_ty_lifetimes(ty), suffix)
        IN  /\ Step
            /\ Install(r.tm)
            /\ Emits(<<>>)
            /\ last' = [Observed("find_or_alloc_rust_type_with_suffix") EXCEPT
                          !.idx = r.idx,
                          !.name = n,
                          !.existed = n \in NodeNames(conv_graph)]

AddConversationRule ==
    \E p \in NodePairs(RulePairs), rule \in Rules :
      LET from == p[1]
          to   == p[2]
      IN
        /\ Step
        /\ Install(add_conversation_rule(Self, from, to, rule))
        /\ Emits(<<>>)
        /\ last' = [Observed("add_conversation_rule") EXCEPT
                      !.from = from, !.to = to,
                      !.path_edges = << <<conv_graph.nodes[from].normalized_name,
                                          conv_graph.nodes[to].normalized_name, rule>> >>,
                      !.existed = graph_find_edge(conv_graph, from, to) # 0]

AddForeign ==
    \E rty \in NodesOf(ForeignTypes), foreign_name \in ForeignNames :
        /\ Step
        /\ Install(add_foreign(Self, rty, foreign_name))
        /\ Emits(<<>>)
        /\ last' = [Observed("add_foreign") EXCEPT !.idx = rty]

CacheRustToForeignConv ==
    \E p \in NodePairs(CachePairs), foreign_name \in ForeignNames :
      LET from == p[1]
          to   == p[2]
      IN
        /\ Step
        /\ Install(cache_rust_to_foreign_conv(Self, from, foreign_name, to))
        /\ Emits(<<>>)
        /\ last' = [Observed("cache_rust_to_foreign_conv") EXCEPT
                      !.from = from, !.to = to]

RegisterForeignerClass ==
    \E class \in Classes :
        /\ Step
        /\ Install(register_foreigner_class(Self, class))
        /\ Emits(<<>>)
        /\ last' = Observed("register_foreigner_class")

Merge ==
    \E code \in Batches :
        /\ Step
        /\ Install(merge(Self, code))
        /\ Emits(<<>>)
        /\ last' = [Observed("merge") EXCEPT !.info = code.id_of_code]

\* what a call of try_build_path leaves and returns
TryBuildPathReturns(from, to, rules, max_steps, r) ==
    /\ Step
    /\ Install([Self EXCEPT !.conv_graph = r.conv_graph])
    /\ Emits(<<>>)
    /\ last' = [Observed("try_build_path") EXCEPT
                  !.from = from, !.to = to, !.ok = r.found,
                  !.spec_nodes = SpecNodes(r), !.spec_edges = SpecEdges(r),
                  !.n_spec = Len(r.snapshot.new_nodes),
                  !.path_edges = PathEdges(r),
                  !.path = r.path_edges,
                  !.budget = max_steps, !.rounds = r.rounds,
                  !.cur_empty = r.cur_empty, !.n_rules = Len(rules),
                  !.reach_ok = r.reach_ok, !.expect_ok = r.expect_ok,
                  !.panic = ~r.expect_ok]

TryBuildPath ==
    \E p \in NodePairs(PathPairs), rules \in RuleSets, max_steps \in StepBudgets :
        TryBuildPathReturns(p[1], p[2], rules, max_steps,
            try_build_path(p[1], p[2], conv_graph, rust_names_map, rules, max_steps))

BuildPathIfPossibleReturns(from, to, r) ==
    /\ Step
    /\ Install(r.tm)
    /\ Emits(<<>>)
    /\ last' = [Observed("build_path_if_possible") EXCEPT
                  !.from = from, !.to = to, !.ok = r.built.found,
                  !.spec_nodes = SpecNodes(r.built),
                  !.spec_edges = SpecEdges(r.built),
                  !.n_spec = Len(r.built.snapshot.new_nodes),
                  !.path_edges = PathEdges(r.built),
                  !.budget = MAX_TRY_BUILD_PATH_STEPS, !.rounds = r.built.rounds,
                  !.cur_empty = r.built.cur_empty, !.n_rules = Len(generic_edges),
                  !.reach_ok = r.built.reach_ok, !.expect_ok = r.built.expect_ok,
                  !.panic = ~r.assert_ok]

BuildPathIfPossible ==
    \E p \in NodePairs(PathPairs) :
        BuildPathIfPossibleReturns(p[1], p[2], build_path_if_possible(Self, p[1], p[2]))

ConvertRustTypesReturns(from, to, r) ==
    /\ Step
    /\ Install(r.tm)
    /\ Emits(r.code_deps)
    /\ last' = [Observed("convert_rust_types") EXCEPT
                  !.from = from, !.to = to, !.ok = r.ok,
                  !.path_edges = [i \in 1..Len(r.path) |->
                                     NamedEdge(r.tm.conv_graph, r.path[i])],
                  !.info = IF r.direct THEN "direct" ELSE "built",
                  !.code_deps = r.code_deps,
                  !.path = r.path, !.ret_code = r.ret_code,
                  !.panic = ~r.assert_ok]

ConvertRustTypes ==
    \E p \in NodePairs(PathPairs) :
        ConvertRustTypesReturns(p[1], p[2], convert_rust_types(Self, p[1], p[2]))

MapThroughConversationToForeignReturns(rust_ty, direction, r) ==
    /\ Step
    /\ Install(r.tm)
    /\ Emits(<<>>)
    /\ last' = [Observed("map_through_conversation_to_foreign") EXCEPT
                  !.from = rust_ty, !.idx = r.idx, !.ok = r.found,
                  !.name = r.name, !.info = r.how, !.dir = direction,
                  !.budget = r.budget, !.tried = r.tried, !.n_found = r.n_found,
                  !.spec_nodes = r.spec_nodes, !.spec_edges = r.spec_edges,
                  !.path_edges = r.path_edges,
                  !.panic = ~r.assert_ok]

MapThroughConversationToForeign ==
    \E rust_ty \in NodesOf(MapTypes), direction \in Directions :
        MapThroughConversationToForeignReturns(rust_ty, direction,
            map_through_conversation_to_foreign(Self, rust_ty, direction))

Next ==
    \/ FindOrAllocRustType
    \/ FindOrAllocRustTypeThatImplements
    \/ FindOrAllocRustTypeWithSuffix
    \/ AddConversationRule
    \/ AddForeign
    \/ CacheRustToForeignConv
    \/ RegisterForeignerClass
    \/ Merge
    \/ TryBuildPath
    \/ BuildPathIfPossible
    \/ ConvertRustTypes
    \/ MapThroughConversationToForeign

Spec == Init /\ [][Next]_vars

\* ------------------------------------------------------------ generate_enum
\* A u64 is written in base 2^16 as [hi, lo]: the value is hi * 65536 + lo.
\* i32::max_value()
i32_max_value == 2147483647

\* `as u64` of a value that is not negative: the same value, 64 bits wide
as_u64(x) == [hi |-> x \div 65536, lo |-> x % 65536]

\* a > b on u64
u64_gt(a, b) == a.hi > b.hi \/ (a.hi = b.hi /\ a.lo > b.lo)

\* java_jni/mod.rs:249  a >= b on u64
u64_ge(a, b) == a.hi > b.hi \/ (a.hi = b.hi /\ a.lo >= b.lo)

\* java_jni/mod.rs:243  JavaConfig::generate_enum for an enum of items_len
\* items (a usize, which `as u64` keeps as it is).  The two generators are
\* called in this order; java_ok and rust_ok say whether each succeeds.
generate_enum(items_len, java_ok, rust_ok) ==
    IF u64_ge(items_len, as_u64(i32_max_value))
    THEN [ok |-> FALSE, error |-> "Too many items in enum", calls |-> <<>>]
    ELSE IF ~java_ok
    THEN [ok |-> FALSE, error |-> "generate_java_code_for_enum",
          calls |-> <<"generate_java_code_for_enum">>]
    ELSE [ok |-> rust_ok,
          error |-> IF rust_ok THEN "" ELSE "generate_rust_code_for_enum",
          calls |-> <<"generate_java_code_for_enum", "generate_rust_code_for_enum">>]

\* the item counts of the enums generated: near 0, near 2^31 and beyond it
EnumItemCounts ==
    {[hi |-> h, lo |-> l] : h \in {0, 32767, 32768},
                            l \in (0..EnumSpan) \cup ((65535 - EnumSpan)..65535)}

GenerateEnumReturns(items_len, r) ==
    /\ Step
    /\ Install(Self)
    /\ Emits(<<>>)
    /\ last' = [Observed("generate_enum") EXCEPT
                  !.ok = r.ok, !.info = r.error, !.items = items_len,
                  !.calls = r.calls]

GenerateEnum ==
    \E items_len \in EnumItemCounts, java_ok \in BOOLEAN, rust_ok \in BOOLEAN :
        GenerateEnumReturns(items_len, generate_enum(items_len, java_ok, rust_ok))

NextEnum == GenerateEnum

SpecEnum == Init /\ [][NextEnum]_vars

\* the state after the set-up of typemap.rs:1278-1301
InitLoaded ==
    /\ conv_graph = LoadedMap.conv_graph
    /\ foreign_names_map = LoadedMap.foreign_names_map
    /\ rust_names_map = LoadedMap.rust_names_map
    /\ utils_code = LoadedMap.utils_code
    /\ generic_edges = LoadedMap.generic_edges
    /\ rust_to_foreign_cache = LoadedMap.rust_to_foreign_cache
    /\ foreign_classes = LoadedMap.foreign_classes
    /\ dep_cells = LoadedMap.dep_cells
    /\ emitted = <<>>
    /\ last = NoObservation
    /\ nops = 0

\* the calls a generator makes once the rules are loaded
NextLoaded ==
    \/ CacheRustToForeignConv
    \/ ConvertRustTypes
    \/ MapThroughConversationToForeign

SpecLoaded == InitLoaded /\ [][NextLoaded]_vars

\* ------------------------------------------------------------ suffixed names
\* the suffixes a type is allocated with after the rules are loaded
SuffixNames == { <<"Foo">>, <<"Bar">> }

\* the names that suffixing gives the suffixed types
SuffixedNames ==
    {make_unique_rust_typename(normalize_ty_lifetimes(ty), suffix) :
        ty \in SuffixTypes, suffix \in SuffixNames}

\* typemap.rs:865  a type that is allocated with suffixes, allocated without one
AllocUnsuffixed ==
    \E ty \in SuffixTypes :
        LET r == find_or_alloc_rust_type(Self, ty)
        IN  /\ Step
            /\ Install(r.tm)
            /\ Emits(<<>>)
            /\ last' = [Observed("find_or_alloc_rust_type") EXCEPT
                          !.idx = r.idx,
                          !.name = normalize_ty_lifetimes(ty),
                          !.existed = normalize_ty_lifetimes(ty) \in NodeNames(conv_graph)]

\* typemap.rs:885
AllocSuffixed ==
    \E ty \in SuffixTypes, suffix \in SuffixNames :
        LET r == find_or_alloc_rust_type_with_suffix(Self, ty, suffix)
            n == make_unique_rust_typename(normalize_ty_lifetimes(ty), suffix)
        IN  /\ Step
            /\ Install(r.tm)
            /\ Emits(<<>>)
            /\ last' = [Observed("find_or_alloc_rust_type_with_suffix") EXCEPT
                          !.idx = r.idx,
                          !.name = n,
                          !.existed = n \in NodeNames(conv_graph)]

\* typemap.rs:483  a conversion from a class type to a node with a suffixed name
ConvertToSuffixed ==
    \E from \in NodesOf(ImplTypes),
       to \in {rust_names_map[n] : n \in SuffixedNames \cap DOMAIN rust_names_map} :
        ConvertRustTypesReturns(from, to, convert_rust_types(Self, from, to))

NextSuffix ==
    \/ AllocUnsuffixed
    \/ AllocSuffixed
    \/ ConvertToSuffixed
    \/ ConvertRustTypes
    \/ MapThroughConversationToForeign

SpecSuffix == InitLoaded /\ [][NextSuffix]_vars

\* ------------------------------------------------------- foreign sources
\* the types given a foreign name after the rules are loaded: types a
\* generic rule converts from
SourceTypes == { <<"&", "Rc", "Foo">>, <<"&mut", "Rc", "RefCell", "Foo">> }

SourceNames == { <<"RcFoo">> }

\* the types these rules convert to, for which a foreign type is asked
TargetTypes == { <<"&", "Foo">>, <<"&mut", "Foo">> }

\* typemap.rs:304
AddForeignSource ==
    \E rty \in NodesOf(SourceTypes), foreign_name \in SourceNames :
        /\ Step
        /\ Install(add_foreign(Self, rty, foreign_name))
        /\ Emits(<<>>)
        /\ last' = [Observed("add_foreign") EXCEPT !.idx = rty, !.name = foreign_name]

\* typemap.rs:645
MapTargetToForeign ==
    \E rust_ty \in NodesOf(TargetTypes), direction \in Directions :
        MapThroughConversationToForeignReturns(rust_ty, direction,
            map_through_conversation_to_foreign(Self, rust_ty, direction))

NextMapped ==
    \/ AddForeignSource
    \/ MapTargetToForeign
    \/ MapThroughConversationToForeign
    \/ ConvertRustTypes

SpecMapped == InitLoaded /\ [][NextMapped]_vars

\* ------------------------------------------------------------ register_class
\* the kinds of methods of the classes declared (types.rs:87 MethodVariant),
\* one list for every combination of kinds a class can have
MethodLists ==
    { <<>>, <<"Constructor">>, <<"Method">>, <<"StaticMethod">>,
      <<"Constructor", "Method">>, <<"Constructor", "StaticMethod">>,
      <<"Method", "StaticMethod">>,
      <<"Constructor", "Method", "StaticMethod">> }

\* the classes handed to register_class (types.rs:13): self_type and
\* constructor_ret_type are <<>> for None; a class has a constructor return
\* type when it has a constructor
DeclaredClasses ==
    {[name |-> "Foo", methods |-> ms, self_type |-> st, constructor_ret_type |-> crt] :
        <<ms, st, crt>> \in
            {x \in MethodLists \X {<<>>, <<"Foo">>} \X {<<>>, <<"Foo">>, <<"Box", "Foo">>} :
                (x[3] # <<>>) <=> (\E i \in DOMAIN x[1] : x[1][i] = "Constructor")}}

\* types.rs:29  the self type, the unit type when there is none
self_type_as_ty(class) ==
    IF class.self_type # <<>> THEN class.self_type ELSE <<"()">>

\* types.rs:36  ForeignerClassInfo::validate_class
validate_class(class) ==
    LET has_constructor == \E i \in DOMAIN class.methods : class.methods[i] = "Constructor"
        has_methods == \E i \in DOMAIN class.methods : class.methods[i] = "Method"
        has_static_methods ==
            \E i \in DOMAIN class.methods : class.methods[i] = "StaticMethod"
    IN  IF class.self_type = <<>> /\ has_constructor
        THEN [ok |-> FALSE, err |-> "has constructor, but no self_type defined"]
        ELSE IF class.self_type = <<>> /\ has_methods
        THEN [ok |-> FALSE, err |-> "has methods, but no self_type defined"]
        ELSE IF /\ class.self_type # <<>>
                /\ ~has_static_methods /\ ~has_constructor /\ ~has_methods
        THEN [ok |-> FALSE, err |-> "has only self_type, but no methods or constructors"]
        ELSE [ok |-> TRUE, err |-> ""]

\* check_if_smart_pointer_return_inner_type for "Box", "Rc" and "Arc"
\* (typemap.rs:332): the type inside the smart pointer, <<>> when the type is
\* none of them
smart_pointer_inner_type(ty) ==
    IF Len(ty) > 1 /\ ty[1] \in {"Box", "Rc", "Arc"} THEN Tail(ty) ELSE <<>>

\* typemap.rs:327  convert_to_heap_pointer: the type behind the raw pointer,
\* allocated when the type is a smart pointer
convert_to_heap_pointer(tm, from) ==
    IF smart_pointer_inner_type(tm.conv_graph.nodes[from].ty) # <<>>
    THEN find_or_alloc_rust_type(tm,
             smart_pointer_inner_type(tm.conv_graph.nodes[from].ty))
    ELSE [tm |-> tm, idx |-> from]

\* typemap.rs:362  unpack_from_heap_pointer: which code gets the value back
unpack_from_heap_pointer(ty, unbox_if_boxed) ==
    IF smart_pointer_inner_type(ty) # <<>> THEN "from_raw"
    ELSE IF unbox_if_boxed THEN "box_from_raw_unbox"
    ELSE "box_from_raw"

\* java_jni/mod.rs:113  the Ok type of a Result, <<>> for any other type
if_ty_result_return_ok_type(ty) ==
    IF Len(ty) > 1 /\ ty[1] = "Result" THEN Tail(ty) ELSE <<>>

\* java_jni/mod.rs:146-195  the three rules from jlong: to & T, to &mut T and
\* to the class type
register_class_rules(tm, this_type, jlong_ti, heap) ==
    LET inner_ty == heap.tm.conv_graph.nodes[heap.idx].ty
        this_type_ref == find_or_alloc_rust_type(tm, <<"&">> \o inner_ty)
        tm1 == add_conversation_rule(this_type_ref.tm, jlong_ti, this_type_ref.idx,
                   TypeConvEdgeFrom("jlong_to_ref"))
        this_type_mut_ref == find_or_alloc_rust_type(tm1, <<"&mut">> \o inner_ty)
        tm2 == add_conversation_rule(this_type_mut_ref.tm, jlong_ti,
                   this_type_mut_ref.idx, TypeConvEdgeFrom("jlong_to_mut_ref"))
    IN  add_conversation_rule(tm2, jlong_ti, this_type,
            TypeConvEdgeFrom(unpack_from_heap_pointer(inner_ty, TRUE)))

\* java_jni/mod.rs:134-145  the constructor's return type, the type behind the
\* raw pointer and jlong
register_class_heap(tm, class, this_type) ==
    LET heap == convert_to_heap_pointer(
                    find_or_alloc_rust_type(tm, class.constructor_ret_type).tm,
                    this_type)
        jlong_ti == find_or_alloc_rust_type(heap.tm, <<"jlong">>)
    IN  register_class_rules(jlong_ti.tm, this_type, jlong_ti.idx, heap)

\* java_jni/mod.rs:112-133  the class type tagged SwigForeignClass, its jobject
\* node and the cache entry for the class name
register_class_this(tm, class) ==
    LET ok_ty == if_ty_result_return_ok_type(class.constructor_ret_type)
        this_type == find_or_alloc_rust_type_that_implements(tm,
                         IF ok_ty # <<>> THEN ok_ty ELSE class.constructor_ret_type,
                         "SwigForeignClass")
        my_jobj_ti == find_or_alloc_rust_type_with_suffix(this_type.tm, <<"jobject">>,
                          this_type.tm.conv_graph.nodes[this_type.idx].normalized_name)
    IN  register_class_heap(
            cache_rust_to_foreign_conv(my_jobj_ti.tm, this_type.idx,
                                       <<class.name>>, my_jobj_ti.idx),
            class, this_type.idx)

\* the same with the check made after the registration
register_class_validate_last(tm, class) ==
    LET tm1 == IF class.constructor_ret_type # <<>>
               THEN register_class_this(tm, class) ELSE tm
    IN  [ok  |-> validate_class(class).ok,
         err |-> validate_class(class).err,
         tm  |-> find_or_alloc_rust_type(tm1, self_type_as_ty(class)).tm]

\* java_jni/mod.rs:108  JavaConfig::register_class
register_class(tm, class) ==
    IF ~validate_class(class).ok
    THEN [ok |-> FALSE, err |-> validate_class(class).err, tm |-> tm]
    ELSE [ok  |-> TRUE,
          err |-> "",
          tm  |-> find_or_alloc_rust_type(
                      IF class.constructor_ret_type # <<>>
                      THEN register_class_this(tm, class) ELSE tm,
                      self_type_as_ty(class)).tm]

RegisterClass ==
    \E class \in DeclaredClasses :
        LET r == register_class(Self, class)
        IN  /\ Step
            /\ Install(r.tm)
            /\ Emits(<<>>)
            /\ last' = [Observed("register_class") EXCEPT
                          !.ok = r.ok, !.info = r.err, !.class = class]

\* the classes of a crate are registered one after the other
NextClass == RegisterClass

SpecClass == Init /\ [][NextClass]_vars

\* ------------------------------------------------------------- properties
\* the names of the nodes at the two ends of the edges of a named path
EndsOf(named) == {named[i][1] : i \in 1..Len(named)} \cup {named[i][2] : i \in 1..Len(named)}

\* C1: a call of try_build_path that finds no path within its budget leaves
\* the live graph exactly as it was: the same nodes and the same edges at the
\* same indices.
C1_FailedBuildRestoresGraph ==
    [][(last'.op = "try_build_path" /\ ~last'.ok) => conv_graph' = conv_graph]_vars

\* a failed call that had created several nodes and edges
C1_Witness ==
    /\ last.op = "try_build_path"
    /\ ~last.ok
    /\ Cardinality(last.spec_nodes) >= 2
    /\ Cardinality(last.spec_edges) >= 3

\* C2: after a committed build (build_path_if_possible, or the winner of the
\* mapper's candidates) every edge of the returned path, with its two nodes, is
\* in the live graph, and no node or edge that the exploration created off the
\* path is.
C2_CommitKeepsOnlyThePath ==
    (/\ last.op \in {"build_path_if_possible", "map_through_conversation_to_foreign"}
     /\ last.ok
     /\ last.op = "map_through_conversation_to_foreign" => last.info = "built")
    => /\ Range(last.path_edges) \subseteq NamedEdges(conv_graph)
       /\ EndsOf(last.path_edges) \subseteq NodeNames(conv_graph)
       /\ (last.spec_edges \ Range(last.path_edges)) \cap NamedEdges(conv_graph) = {}
       /\ (last.spec_nodes \ EndsOf(last.path_edges)) \cap NodeNames(conv_graph) = {}

\* the mapper committed a built path while the exploration had also created a
\* node and an edge off that path
C2_Witness ==
    /\ last.op = "map_through_conversation_to_foreign"
    /\ last.info = "built"
    /\ last.spec_nodes \ EndsOf(last.path_edges) # {}
    /\ last.spec_edges \ Range(last.path_edges) # {}
    /\ last.spec_edges \cap Range(last.path_edges) # {}

\* the nodes one edge away from the nodes of S
Successors(g, S) ==
    {g.edges[e].dst : e \in {x \in 1..Len(g.edges) : g.edges[x].src \in S}}

RECURSIVE DistanceFrom(_, _, _, _)
\* breadth-first search: seen holds the nodes at most d edges from the start
DistanceFrom(g, seen, to, d) ==
    IF to \in seen THEN d
    ELSE IF Successors(g, seen) \subseteq seen THEN NoScore
    ELSE DistanceFrom(g, seen \cup Successors(g, seen), to, d + 1)

\* the breadth-first shortest distance, NoScore when there is no path
ShortestDistance(g, from, to) == DistanceFrom(g, {from}, to, 0)

\* edges is a chain of edges of g from from to to
IsChain(g, from, to, edges) ==
    /\ \A i \in 1..Len(edges) : edges[i] \in 1..Len(g.edges)
    /\ edges = <<>> => from = to
    /\ edges # <<>> => /\ g.edges[edges[1]].src = from
                       /\ g.edges[edges[Len(edges)]].dst = to
    /\ \A i \in 1..(Len(edges) - 1) : g.edges[edges[i]].dst = g.edges[edges[i + 1]].src

\* C3: for every pair of nodes of the live graph find_conversation_path fails
\* exactly when the second is not reachable from the first, and otherwise
\* returns a chain of existing edges whose length is the breadth-first
\* shortest distance.
C3_DirectSearchIsShortest ==
    \A from \in NodeIds, to \in NodeIds :
        IF ShortestDistance(conv_graph, from, to) = NoScore
        THEN ~find_conversation_path(conv_graph, from, to).ok
        ELSE /\ find_conversation_path(conv_graph, from, to).ok
             /\ Len(find_conversation_path(conv_graph, from, to).edges)
                  = ShortestDistance(conv_graph, from, to)
             /\ IsChain(conv_graph, from, to,
                        find_conversation_path(conv_graph, from, to).edges)

\* a graph with a pair joined by one edge and also by a chain of two, a pair at
\* distance two, and a pair with no path
C3_Witness ==
    /\ \E a \in NodeIds, b \in NodeIds, c \in NodeIds :
          /\ a # b /\ b # c /\ a # c
          /\ graph_find_edge(conv_graph, a, b) # 0
          /\ graph_find_edge(conv_graph, b, c) # 0
          /\ graph_find_edge(conv_graph, a, c) # 0
          /\ Len(find_conversation_path(conv_graph, a, c).edges) = 1
    /\ \E a \in NodeIds, b \in NodeIds :
          Len(find_conversation_path(conv_graph, a, b).edges) = 2
    /\ \E a \in NodeIds, b \in NodeIds : ~find_conversation_path(conv_graph, a, b).ok

\* C4: for every registered type find_path from the type to itself is the
\* empty sequence of edges, whatever edges the graph has; a conversion of a
\* type to itself uses that path.
C4_PathToSelfIsEmpty ==
    /\ \A a \in NodeIds : find_path(conv_graph, a, a) = [ok |-> TRUE, edges |-> <<>>]
    /\ (last.op = "convert_rust_types" /\ last.from = last.to)
         => last.ok /\ last.path_edges = <<>> /\ last.info = "direct"

\* a type converted to itself while it lies on a cycle of the graph
C4_Witness ==
    /\ last.op = "convert_rust_types"
    /\ last.from = last.to
    /\ \E b \in NodeIds \ {last.from} :
          /\ has_path_connecting(conv_graph, last.from, b)
          /\ has_path_connecting(conv_graph, b, last.from)

\* the batch of that name
BatchOf(id) == CHOOSE b \in Batches : b.id_of_code = id

\* the parts of the TypeMap that hold the graph, the two name indexes, the
\* cache and the declared classes
GraphState == <<conv_graph, foreign_names_map, rust_names_map,
                rust_to_foreign_cache, foreign_classes>>

\* a merge that follows a merge of the same batch
MergedAgain == last.op = "merge" /\ last'.op = "merge" /\ last'.info = last.info

\* C5 as stated: a merge of the batch that was just merged changes no part of
\* the TypeMap.
C5_SecondMergeChangesNothing ==
    [][MergedAgain => UNCHANGED <<GraphState, utils_code, generic_edges, dep_cells>>]_vars

\* C5 amended: a merge of the batch that was just merged adds no node, no edge
\* and no foreign association and leaves the graph and the name indexes as they
\* were; the batch's utility code and generic rules are appended once more.
C5_SecondMergeKeepsGraph ==
    [][MergedAgain =>
         /\ UNCHANGED GraphState
         /\ utils_code' = utils_code \o BatchOf(last'.info).utils_code
         /\ Len(generic_edges') =
              Len(generic_edges) + Len(BatchOf(last'.info).generic_edges)]_vars

\* the batch with a generic rule has been merged twice
C5_Witness ==
    /\ last.op = "merge"
    /\ last.info = "class"
    /\ node_count(conv_graph) = last.pre_nodes
    /\ edge_count(conv_graph) = last.pre_edges
    /\ utils_code = BatchClass.utils_code \o BatchClass.utils_code
    /\ Len(generic_edges) = Len(default_rules) + 2 * Len(BatchClass.generic_edges)

\* the edges of g between the nodes named a and b
EdgesNamed(g, a, b) ==
    {e \in 1..Len(g.edges) :
        /\ g.nodes[g.edges[e].src].normalized_name = a
        /\ g.nodes[g.edges[e].dst].normalized_name = b}

PayloadsNamed(g, a, b) == {g.edges[e].w : e \in EdgesNamed(g, a, b)}

\* what a merge does for one edge of the batch, between the nodes named a and b
EdgeMerged(g, g2, a, b, w) ==
    /\ Cardinality(EdgesNamed(g2, a, b)) = 1
    /\ IF EdgesNamed(g, a, b) # {}
       THEN PayloadsNamed(g2, a, b) = PayloadsNamed(g, a, b)
       ELSE PayloadsNamed(g2, a, b) = {w}

\* C6: for every edge of a merged batch, when the live graph had an edge
\* between the two endpoints, that edge keeps its payload and stays the only
\* one; when it had none, the batch's edge is installed.  The merge succeeds in
\* both cases.
C6_MergeKeepsLiveEdge ==
    [][last'.op = "merge" =>
         /\ last'.ok
         /\ \A i \in 1..Len(BatchOf(last'.info).conv_graph.edges) :
               EdgeMerged(conv_graph, conv_graph',
                   BatchOf(last'.info).conv_graph.nodes[
                       BatchOf(last'.info).conv_graph.edges[i].src].normalized_name,
                   BatchOf(last'.info).conv_graph.nodes[
                       BatchOf(last'.info).conv_graph.edges[i].dst].normalized_name,
                   BatchOf(last'.info).conv_graph.edges[i].w)]_vars

\* the overlapping batch was merged over a live edge jboolean -> bool: two of
\* its three edges were installed and the live rule is still in place
C6_Witness ==
    /\ last.op = "merge"
    /\ last.info = "bool2"
    /\ edge_count(conv_graph) = last.pre_edges + 2
    /\ PayloadsNamed(conv_graph, <<"jboolean">>, <<"bool">>)
         = {TypeConvEdgeFrom("swig_into")}

\* the tags of the node named n, none when there is no such node
TagsOf(g, names, n) == IF n \in DOMAIN names THEN g.nodes[names[n]].implements ELSE {}

\* C7: a merge leaves every node of the batch with the union of the tags the
\* live node had and the tags the batch gives it, the node then passes the
\* check for each of them, and no node loses a tag.
C7_MergeUnitesTags ==
    [][last'.op = "merge" =>
         /\ \A n \in DOMAIN rust_names_map :
               TagsOf(conv_graph, rust_names_map, n)
                   \subseteq TagsOf(conv_graph', rust_names_map', n)
         /\ \A i \in 1..Len(BatchOf(last'.info).conv_graph.nodes) :
               /\ TagsOf(conv_graph', rust_names_map',
                         BatchOf(last'.info).conv_graph.nodes[i].normalized_name)
                    = TagsOf(conv_graph, rust_names_map,
                             BatchOf(last'.info).conv_graph.nodes[i].normalized_name)
                      \cup BatchOf(last'.info).conv_graph.nodes[i].implements
               /\ \A t \in TagsOf(conv_graph', rust_names_map',
                                  BatchOf(last'.info).conv_graph.nodes[i].normalized_name) :
                     is_ty_implements(
                         [conv_graph |-> conv_graph', rust_names_map |-> rust_names_map'],
                         conv_graph'.nodes[rust_names_map'[
                             BatchOf(last'.info).conv_graph.nodes[i].normalized_name]],
                         t)]_vars

\* a merge gave Foo, which carried SwigForeignClass, the tag SwigFrom as well
C7_Witness ==
    /\ last.op = "merge"
    /\ last.info = "bool2"
    /\ last.pre_nodes > 0
    /\ TagsOf(conv_graph, rust_names_map, <<"Foo">>) = {"SwigForeignClass", "SwigFrom"}

\* C8 as stated: after find_or_alloc_rust_type_that_implements the node of the
\* type carries the tag, whether the call created the node or found it.
C8_AssertedTagIsCarried ==
    last.op = "find_or_alloc_rust_type_that_implements"
        => last.info \in conv_graph.nodes[last.idx].implements

\* the part of C8 that holds: a node the call creates carries the tag
C8_CreatedNodeIsTagged ==
    (last.op = "find_or_alloc_rust_type_that_implements" /\ ~last.existed)
        => last.info \in conv_graph.nodes[last.idx].implements

\* the call found a node of that name that does not carry the tag
C8_Witness ==
    /\ last.op = "find_or_alloc_rust_type_that_implements"
    /\ last.existed
    /\ last.info \notin conv_graph.nodes[last.idx].implements

AllocOps ==
    {"find_or_alloc_rust_type", "find_or_alloc_rust_type_that_implements",
     "find_or_alloc_rust_type_with_suffix"}

\* C9: no two nodes of the live graph have the same normalized name; an
\* allocation of a registered name returns the registered node and adds none,
\* an allocation of a new name adds exactly one node; the nodes a path-building
\* call creates have names that differ from each other and from the
\* registered ones.
C9_NormalizedNamesUnique ==
    /\ \A i \in NodeIds, j \in NodeIds :
          conv_graph.nodes[i].normalized_name = conv_graph.nodes[j].normalized_name
              => i = j
    /\ last.op \in AllocOps =>
          /\ conv_graph.nodes[last.idx].normalized_name = last.name
          /\ node_count(conv_graph) = last.pre_nodes + (IF last.existed THEN 0 ELSE 1)
    /\ last.op \in {"try_build_path", "build_path_if_possible"} =>
          Cardinality(last.spec_nodes) = last.n_spec
    /\ last.op = "try_build_path" => last.spec_nodes \cap NodeNames(conv_graph) = {}

\* an allocation of a name that was registered, by each entry point in turn
C9_Witness ==
    /\ last.op = "find_or_alloc_rust_type"
    /\ last.existed
    /\ last.name = <<"&", "Foo">>
    /\ conv_graph.nodes[last.idx].ty = <<"&", "Foo">>

\* C10: no ordered pair of nodes of the live graph has more than one edge;
\* add_conversation_rule leaves the pair with the rule it was given, and adds
\* an edge only when the pair had none.
C10_OneEdgePerPair ==
    /\ \A a \in NodeIds, b \in NodeIds : Cardinality(EdgesBetween(conv_graph, a, b)) <= 1
    /\ last.op = "add_conversation_rule" =>
          /\ graph_find_edge(conv_graph, last.from, last.to) # 0
          /\ conv_graph.edges[graph_find_edge(conv_graph, last.from, last.to)].w
               = last.path_edges[1][3]
          /\ edge_count(conv_graph) = last.pre_edges + (IF last.existed THEN 0 ELSE 1)

\* add_conversation_rule was called for a pair that had an edge
C10_Witness ==
    /\ last.op = "add_conversation_rule"
    /\ last.existed
    /\ edge_count(conv_graph) = last.pre_edges

\* the edges of the live graph that hold the cell of generic rule c
EdgesOfCell(c) == {e \in 1..edge_count(conv_graph) : conv_graph.edges[e].w.dependency = c}

\* C11: over any sequence of calls no dependency fragment is returned twice,
\* whether it is an edge's own or the one the edges made from a generic rule
\* share; a fragment is gone from its cell exactly when a call returned it, so
\* the explorations that were rolled back took none.
C11_DependencyReturnedOnce ==
    /\ \A i \in 1..Len(emitted), j \in 1..Len(emitted) : emitted[i] = emitted[j] => i = j
    /\ \A c \in 1..Len(dep_cells) : dep_cells[c] <=> <<"rule", c>> \notin Range(emitted)
    /\ \A e \in 1..edge_count(conv_graph) :
          conv_graph.edges[e].w.dependency = OwnDep => <<"edge", e>> \notin Range(emitted)
    /\ (last.op = "convert_rust_types" /\ ~last.ok) => last.code_deps = <<>>

\* a conversion went over a second edge made from the generic rule whose
\* fragment an earlier conversion returned, and returned nothing
C11_Witness ==
    /\ last.op = "convert_rust_types"
    /\ last.ok
    /\ last.code_deps = <<>>
    /\ emitted = << <<"rule", 1>> >>
    /\ Cardinality(EdgesOfCell(1)) >= 2
    /\ \E k \in 1..Len(last.path) : last.path[k] \in EdgesOfCell(1)

\* the parts of the TypeMap a foreign mapping can change
MapState == <<conv_graph, foreign_names_map, rust_names_map, utils_code, generic_edges,
              rust_to_foreign_cache, foreign_classes, dep_cells>>

\* the edges between a type and a foreign endpoint's node in the direction
\* asked for, NoScore when there is no path
EndpointDistance(g, rust_ty, direction, node) ==
    IF direction = "Outgoing" THEN ShortestDistance(g, rust_ty, node)
    ELSE ShortestDistance(g, node, rust_ty)

\* the foreign names whose node has a path from or to the type
ReachableEndpoints(tm, rust_ty, direction) ==
    {n \in DOMAIN tm.foreign_names_map :
        EndpointDistance(tm.conv_graph, rust_ty, direction, tm.foreign_names_map[n]) # NoScore}

\* a call of the mapper was made, and the cache did not answer it
MappedUncached ==
    /\ last'.op = "map_through_conversation_to_foreign"
    /\ ~is_cached(Self, last'.from, last'.dir)

\* C12: a mapping the cache does not answer is answered by the direct search
\* exactly when some foreign endpoint has a path in the direction asked for;
\* the endpoint returned is one of those with the fewest edges, and nothing of
\* the TypeMap changes.
C12_DirectSearchPicksFewestEdges ==
    [][MappedUncached =>
         /\ (last'.info = "direct") <=> (ReachableEndpoints(Self, last'.from, last'.dir) # {})
         /\ last'.info = "direct" =>
              /\ last'.name \in ReachableEndpoints(Self, last'.from, last'.dir)
              /\ last'.idx = foreign_names_map[last'.name]
              /\ \A n \in ReachableEndpoints(Self, last'.from, last'.dir) :
                    EndpointDistance(conv_graph, last'.from, last'.dir, last'.idx)
                       <= EndpointDistance(conv_graph, last'.from, last'.dir,
                                           foreign_names_map[n])
              /\ UNCHANGED MapState]_vars

\* bool was mapped outward to boolean, one edge away, while long is two away
C12_Witness ==
    /\ last.op = "map_through_conversation_to_foreign"
    /\ last.info = "direct"
    /\ last.dir = "Outgoing"
    /\ conv_graph.nodes[last.from].normalized_name = <<"bool">>
    /\ last.name = <<"boolean">>
    /\ EndpointDistance(conv_graph, last.from, "Outgoing", last.idx) = 1
    /\ EndpointDistance(conv_graph, last.from, "Outgoing", foreign_names_map[<<"long">>]) = 2

\* the cache holds a foreign name for the type, and the name is registered
CacheHolds(rust_ty) ==
    /\ conv_graph.nodes[rust_ty].normalized_name \in DOMAIN rust_to_foreign_cache
    /\ rust_to_foreign_cache[conv_graph.nodes[rust_ty].normalized_name]
          \in DOMAIN foreign_names_map

\* what the mapper answers for the type when the cache is empty
MapWithoutCache(rust_ty, direction) ==
    map_through_conversation_to_foreign(
        [Self EXCEPT !.rust_to_foreign_cache = EmptyMap], rust_ty, direction)

\* the answer of a call that was observed is the answer r
SameAnswer(obs, r) == obs.info = r.how /\ obs.name = r.name /\ obs.idx = r.idx

\* C13: an outward mapping of a type whose cached foreign name is registered
\* returns that name and its node, tries nothing and changes nothing; an
\* inward mapping is never answered from the cache and gets the answer it
\* would get with an empty cache.
C13_CacheAnswersOutgoingOnly ==
    [][last'.op = "map_through_conversation_to_foreign" =>
         /\ (last'.info = "cache") <=> (last'.dir = "Outgoing" /\ CacheHolds(last'.from))
         /\ last'.info = "cache" =>
              /\ last'.name = rust_to_foreign_cache[conv_graph.nodes[last'.from].normalized_name]
              /\ last'.idx = foreign_names_map[last'.name]
              /\ last'.tried = 0
              /\ UNCHANGED MapState
         /\ last'.dir = "Incoming" =>
              SameAnswer(last', MapWithoutCache(last'.from, "Incoming"))]_vars

\* Foo was mapped outward from the cache to long, which no search would have
\* given: no endpoint is reachable from Foo
C13_Witness ==
    /\ last.op = "map_through_conversation_to_foreign"
    /\ last.info = "cache"
    /\ conv_graph.nodes[last.from].normalized_name = <<"Foo">>
    /\ last.name = <<"long">>
    /\ ReachableEndpoints(Self, last.from, "Outgoing") = {}

\* the TypeMap when the path building of a mapping begins: the candidate
\* endpoints of the generic rules have been added
Synthesized == map_synthesize(Self, IterOrder(new_foreign_types(Self)), 1)

\* what try_build_path returns between the type and the endpoint of that name
\* with that budget
TryEndpoint(tm, rust_ty, direction, name, max_steps) ==
    try_build_path(
        IF direction = "Outgoing" THEN rust_ty ELSE tm.foreign_names_map[name],
        IF direction = "Outgoing" THEN tm.foreign_names_map[name] ELSE rust_ty,
        tm.conv_graph, tm.rust_names_map, tm.generic_edges, max_steps)

\* the endpoints for which the Path Builder finds a path with that budget
BuiltEndpoints(tm, rust_ty, direction, max_steps) ==
    {n \in DOMAIN tm.foreign_names_map :
        TryEndpoint(tm, rust_ty, direction, n, max_steps).found}

\* C14: a mapping answered by path building stopped at the first budget of
\* 1..7 at which the Path Builder finds a path for some endpoint, after trying
\* every endpoint at every budget up to it; the endpoint returned has the
\* shortest of the paths found at that budget, and the live graph gains the
\* edges of that path and no other.
C14_BuildStopsAtFirstBudget ==
    [][(last'.op = "map_through_conversation_to_foreign" /\ last'.info = "built") =>
         /\ last'.budget \in 1..MAX_TRY_BUILD_PATH_STEPS
         /\ \A b \in 1..(last'.budget - 1) :
               BuiltEndpoints(Synthesized, last'.from, last'.dir, b) = {}
         /\ last'.name \in BuiltEndpoints(Synthesized, last'.from, last'.dir, last'.budget)
         /\ \A n \in BuiltEndpoints(Synthesized, last'.from, last'.dir, last'.budget) :
               Len(last'.path_edges)
                  <= TryEndpoint(Synthesized, last'.from, last'.dir, n,
                                 last'.budget).path.path_len
         /\ last'.tried = last'.budget * Cardinality(DOMAIN Synthesized.foreign_names_map)
         /\ last'.idx = Synthesized.foreign_names_map[last'.name]
         /\ NamedEdges(conv_graph') = NamedEdges(conv_graph) \cup Range(last'.path_edges)]_vars

\* &mut Rc<RefCell<Foo>> was mapped outward by path building: no endpoint had
\* a path at the budgets 1 to 4, one had at budget 5
C14_Witness ==
    /\ last.op = "map_through_conversation_to_foreign"
    /\ last.info = "built"
    /\ last.dir = "Outgoing"
    /\ last.budget = 5
    /\ last.tried = 5 * Cardinality(DOMAIN foreign_names_map)
    /\ Cardinality(DOMAIN foreign_names_map) >= 2
    /\ edge_count(conv_graph) > last.pre_edges

\* the direct search of convert_rust_types has no answer: the two nodes have
\* different names and the second is not reachable from the first
DirectFails(from, to) ==
    /\ conv_graph.nodes[from].normalized_name # conv_graph.nodes[to].normalized_name
    /\ ~has_path_connecting(conv_graph, from, to)

\* the Path Builder finds no path with the default budget
BuildFails(from, to) ==
    ~try_build_path(from, to, conv_graph, rust_names_map, generic_edges,
                    MAX_TRY_BUILD_PATH_STEPS).found

\* C15: convert_rust_types returns the error exactly when the direct search
\* fails and the Path Builder with the default budget fails too; the graph is
\* then what it was and no dependency was taken.
C15_ErrorIffSearchAndBuildFail ==
    [][last'.op = "convert_rust_types" =>
         /\ (~last'.ok) <=> (DirectFails(last'.from, last'.to)
                               /\ BuildFails(last'.from, last'.to))
         /\ (~last'.ok) =>
               /\ conv_graph' = conv_graph
               /\ rust_names_map' = rust_names_map
               /\ dep_cells' = dep_cells
               /\ emitted' = emitted
               /\ last'.code_deps = <<>>]_vars

\* a conversion failed after an earlier one had taken a dependency: the Path
\* Builder had rules to try and found nothing
C15_Witness ==
    /\ last.op = "convert_rust_types"
    /\ ~last.ok
    /\ last.from # last.to
    /\ Len(generic_edges) > 0
    /\ emitted # <<>>
    /\ edge_count(conv_graph) = last.pre_edges

\* C16: the mapper answers NotFound only when the cache did not answer (an
\* outward call), no endpoint is reachable directly, the candidate endpoints
\* were synthesized, and try_build_path failed for every endpoint at every
\* budget of 1..7; the edges of the graph are then the ones it had before.
C16_NotFoundAfterEveryBudget ==
    [][(last'.op = "map_through_conversation_to_foreign" /\ last'.info = "none") =>
         /\ ~(last'.dir = "Outgoing" /\ CacheHolds(last'.from))
         /\ ReachableEndpoints(Self, last'.from, last'.dir) = {}
         /\ foreign_names_map' = Synthesized.foreign_names_map
         /\ \A b \in 1..7 :
               BuiltEndpoints(Synthesized, last'.from, last'.dir, b) = {}
         /\ last'.tried = 7 * Cardinality(DOMAIN Synthesized.foreign_names_map)
         /\ ~last'.ok
         /\ conv_graph'.edges = conv_graph.edges]_vars

\* Foo was mapped inward and nothing was found: an endpoint was synthesized
\* for it, and each of the three endpoints was tried at each of the 7 budgets
C16_Witness ==
    /\ last.op = "map_through_conversation_to_foreign"
    /\ last.info = "none"
    /\ last.dir = "Incoming"
    /\ last.tried = 21
    /\ node_count(conv_graph) > last.pre_nodes
    /\ edge_count(conv_graph) = last.pre_edges

\* a call of the Path Builder was the last operation
PathBuilt == last.op \in {"try_build_path", "build_path_if_possible"}

\* C17: try_build_path makes at most as many expansion rounds as its budget
\* (7 for build_path_if_possible); without a path it has used the whole
\* budget or its frontier was empty; with budget 0 it makes no round and
\* returns no path.
C17_RoundsWithinBudget ==
    PathBuilt =>
        /\ last.rounds <= last.budget
        /\ last.op = "build_path_if_possible" => last.budget = 7
        /\ last.budget = 0 => (~last.ok /\ last.rounds = 0)
        /\ ~last.ok => (last.rounds = last.budget \/ last.cur_empty)
        /\ last.cur_empty => ~last.ok

\* with budget 7 and no rule the search stopped without a path after at least
\* one round and fewer than 7: its frontier was empty
C17_Witness ==
    /\ last.op = "try_build_path"
    /\ last.budget = MAX_TRY_BUILD_PATH_STEPS
    /\ ~last.ok
    /\ last.rounds >= 1
    /\ last.rounds < last.budget
    /\ last.cur_empty
    /\ last.n_rules = 0

\* try_build_path called once more, on the graph the call just made has left,
\* with the start, the goal, the rules and the budget of that call
RunAgain ==
    try_build_path(last'.from, last'.to, conv_graph', rust_names_map',
                   IF last'.n_rules = 0 THEN NoRules ELSE generic_edges',
                   last'.budget)

AtLeastI32Max(n) == n.hi >= 32768 \/ (n.hi = 32767 /\ n.lo = 65535)

\* C19: generate_enum answers an enum of 2^31 - 1 items or more with the error
\* "Too many items in enum" and has then called neither the Java nor the Rust
\* generator; an enum with fewer items passes the check: the Java generator is
\* called, and any error is another one.
C19_TooManyItemsRejectedFirst ==
    last.op = "generate_enum" =>
        /\ AtLeastI32Max(last.items) =>
              (~last.ok /\ last.info = "Too many items in enum" /\ last.calls = <<>>)
        /\ ~AtLeastI32Max(last.items) =>
              /\ last.info # "Too many items in enum"
              /\ last.calls # <<>>
              /\ last.calls[1] = "generate_java_code_for_enum"
              /\ last.ok => Len(last.calls) = 2

\* an enum of exactly 2^31 - 1 items was rejected and nothing was generated
C19_Witness ==
    /\ last.op = "generate_enum"
    /\ last.items = [hi |-> 32767, lo |-> 65535]
    /\ ~last.ok
    /\ last.calls = <<>>

\* the name of a node of the live graph
NameOf(idx) == conv_graph.nodes[idx].normalized_name

\* the last operation converted &mut Rc<RefCell<Foo>> to &mut Foo
ConvertedRcRefCell ==
    /\ last.op = "convert_rust_types"
    /\ NameOf(last.from) = <<"&mut", "Rc", "RefCell", "Foo">>
    /\ NameOf(last.to) = <<"&mut", "Foo">>

\* C20: the conversion from &mut Rc<RefCell<Foo>> to &mut Foo, which the graph
\* has no path for until generic rules are applied, succeeds, and its code is
\* the template of each edge of the path in path order: the reborrow as
\* & Rc<RefCell<Foo>>, the dereference of the Rc, the borrow of the RefCell
\* and the mutable dereference of the RefMut.  Every conversion that succeeds
\* returns one template per edge of a path that leads from its source to its
\* destination, in the order of the path, each with the type its edge ends in.
C20_OneTemplatePerEdgeInPathOrder ==
    /\ ConvertedRcRefCell =>
          /\ last.ok
          /\ last.ret_code =
                << <<"let mut {to_var}: {to_var_type} = {from_var};",
                     <<"&", "Rc", "RefCell", "Foo">> >>,
                   <<"swig_deref", <<"&", "RefCell", "Foo">> >>,
                   <<"swig_from", <<"RefMut", "Foo">> >>,
                   <<"swig_deref_mut", <<"&mut", "Foo">> >> >>
    /\ (last.op = "convert_rust_types" /\ last.ok) =>
          /\ Len(last.ret_code) = Len(last.path_edges)
          /\ \A i \in 1..Len(last.path_edges) :
                /\ last.ret_code[i] = <<last.path_edges[i][3].code_template,
                                        unpack_unique_typename(last.path_edges[i][2])>>
                /\ last.path_edges[i][1] =
                      (IF i = 1 THEN NameOf(last.from) ELSE last.path_edges[i - 1][2])
          /\ Len(last.path_edges) > 0 =>
                last.path_edges[Len(last.path_edges)][2] = NameOf(last.to)

\* that conversion was made by building the path: four edges, four templates
C20_Witness ==
    /\ ConvertedRcRefCell
    /\ last.ok
    /\ last.info = "built"
    /\ Len(last.path_edges) = 4
    /\ Len(last.ret_code) = 4
    /\ edge_count(conv_graph) > last.pre_edges

RECURSIVE Within(_, _, _)
\* the nodes at most n edges away from the nodes of S
Within(g, S, n) == IF n = 0 THEN S ELSE Within(g, S \cup Successors(g, S), n - 1)

\* the nodes try_build_path expands with that budget when it adds no edge
Expanded(g, from, max_steps) ==
    IF max_steps = 0 THEN {} ELSE Within(g, {from}, max_steps - 1)

\* the rule leads from the node to a type of another name
RuleApplies(tm, rule, node) ==
    LET poss == is_conv_possible(rule, tm.conv_graph.nodes[node],
                    find_type_by_name(
                        TypeGraphSnapshot_new(tm.conv_graph, tm.rust_names_map)))
    IN  poss.ok /\ poss.to_ty_name # tm.conv_graph.nodes[node].normalized_name

\* no rule of the set applies to a node the search expands
NoRuleApplies(tm, from, rules, max_steps) ==
    \A n \in Expanded(tm.conv_graph, from, max_steps) :
        \A k \in 1..Len(rules) : ~RuleApplies(tm, rules[k], n)

\* the rule set of the call of try_build_path just observed
RulesOf(obs) == IF obs.n_rules = 0 THEN NoRules ELSE generic_edges

\* the call of try_build_path just observed, made on the graph before it
BuiltBefore ==
    try_build_path(last'.from, last'.to, conv_graph, rust_names_map,
                   RulesOf(last'), last'.budget)

\* C21: try_build_path returns no path when no generic rule applies to a node
\* it expands within its budget, even when the graph already joins the start
\* to the goal; a path it returns is a chain of edges of the snapshot graph
\* that begins at the start and ends at the goal.
C21_NoPathWithoutApplicableRule ==
    [][last'.op = "try_build_path" =>
         /\ NoRuleApplies(Self, last'.from, RulesOf(last'), last'.budget) => ~last'.ok
         /\ last'.ok =>
               /\ BuiltBefore.found
               /\ BuiltBefore.path_edges = last'.path
               /\ last'.path # <<>>
               /\ IsChain(BuiltBefore.snapshot.conv_graph, last'.from, last'.to,
                          last'.path)
               /\ Range(last'.path_edges)
                     \subseteq NamedEdges(conv_graph) \cup last'.spec_edges]_vars

\* a search with budget 7 expanded nodes no rule applies to and returned no
\* path, although the goal can be reached from the start over existing edges
C21_Witness ==
    /\ last.op = "try_build_path"
    /\ ~last.ok
    /\ last.budget = MAX_TRY_BUILD_PATH_STEPS
    /\ last.rounds >= 1
    /\ last.from # last.to
    /\ NoRuleApplies(Self, last.from, RulesOf(last), last.budget)
    /\ has_path_connecting(conv_graph, last.from, last.to)

\* the pairs of a rule with a foreign hint and a registered type whose tags
\* satisfy the rule's bound
HintMatches ==
    {x \in (1..Len(generic_edges)) \X {rust_names_map[k] : k \in DOMAIN rust_names_map} :
        /\ generic_edges[x[1]].to_foreigner_hint # <<>>
        /\ generic_edges[x[1]].bounds # {}
        /\ generic_edges[x[1]].bounds \subseteq conv_graph.nodes[x[2]].implements}

\* the declared class of the type of a node, 0 without one
ClassOf(n) == find_foreigner_class_with_such_this_type(Self, conv_graph.nodes[n].ty)

\* the node name the candidate of such a pair would get
CandidateNode(x) ==
    make_unique_rust_typename(
        normalize_ty_lifetimes(generic_edges[x[1]].to_ty),
        SubstParam(generic_edges[x[1]].to_foreigner_hint,
                   conv_graph.nodes[x[2]].normalized_name))

\* the foreign names the pairs with a declared class give
BackedNames ==
    {SubstParam(generic_edges[x[1]].to_foreigner_hint,
                <<foreign_classes[ClassOf(x[2])].name>>) :
        x \in {y \in HintMatches : ClassOf(y[2]) # 0}}

\* a call of the mapper has gone through the synthesis of endpoints
Synthesizing ==
    /\ last'.op = "map_through_conversation_to_foreign"
    /\ last'.info \in {"built", "none"}

\* C22: in the synthesis of endpoints a registered type that satisfies the
\* bound of a rule with a foreign hint and has no declared class gets no
\* foreign name and no node; the types that have a class get theirs, and the
\* mapper goes on to path building and returns its answer.
C22_TypeWithoutClassIsSkipped ==
    [][Synthesizing =>
         /\ DOMAIN foreign_names_map' = (DOMAIN foreign_names_map) \cup BackedNames
         /\ \A x \in HintMatches :
               (ClassOf(x[2]) = 0 /\ CandidateNode(x) \notin NodeNames(conv_graph))
                  => CandidateNode(x) \notin NodeNames(conv_graph')
         /\ \A x \in HintMatches :
               ClassOf(x[2]) # 0 => CandidateNode(x) \in NodeNames(conv_graph')
         /\ ~last'.panic
         /\ last'.tried >= Cardinality(DOMAIN foreign_names_map')]_vars

\* the mapper found an answer by path building although a tagged type that a
\* rule with a foreign hint matches has no declared class: no endpoint and no
\* node were made for it
C22_Witness ==
    /\ last.op = "map_through_conversation_to_foreign"
    /\ last.info = "built"
    /\ \E x \in HintMatches :
          /\ ClassOf(x[2]) = 0
          /\ x[2] = last.from
          /\ CandidateNode(x) \notin NodeNames(conv_graph)
    /\ BackedNames = {}
    /\ Cardinality(DOMAIN foreign_names_map) = 1

\* the names without the character 0, and the suffixes, of up to MaxNameLen
\* tokens
PlainNames == UNION {[1..k -> {"jobject", "Foo", "&"}] : k \in 0..MaxNameLen}

AnySuffixes == UNION {[1..k -> {"Foo", "Bar", "&", Sentinel}] : k \in 0..MaxNameLen}

\* C23: stripping undoes suffixing: unpack_unique_typename gives back a name
\* without the character 0 from its suffixed form, whatever the suffix, and
\* leaves such a name as it is (these do not depend on the state and are
\* evaluated in the first one).  A name, its suffixed forms and the forms with
\* different suffixes are different names, and their nodes are different
\* nodes; every node's name strips to the spelling of its type.  The code
\* convert_rust_types returns names each destination by its stripped name.
C23_StrippingUndoesSuffixing ==
    /\ nops = 0 =>
          \A n \in PlainNames :
             /\ unpack_unique_typename(n) = n
             /\ \A s \in AnySuffixes :
                   /\ unpack_unique_typename(make_unique_rust_typename(n, s)) = n
                   /\ make_unique_rust_typename(n, s) # n
                   /\ \A t \in AnySuffixes :
                         s # t => make_unique_rust_typename(n, s)
                                     # make_unique_rust_typename(n, t)
    /\ \A i \in NodeIds :
          /\ unpack_unique_typename(conv_graph.nodes[i].normalized_name)
                = normalize_ty_lifetimes(conv_graph.nodes[i].ty)
          /\ rust_names_map[conv_graph.nodes[i].normalized_name] = i
    /\ last.op = "find_or_alloc_rust_type_with_suffix" =>
          /\ conv_graph.nodes[last.idx].normalized_name = last.name
          /\ Sentinel \in Range(last.name)
          /\ \A j \in NodeIds :
                (/\ unpack_unique_typename(conv_graph.nodes[j].normalized_name)
                      = unpack_unique_typename(last.name)
                 /\ conv_graph.nodes[j].normalized_name # last.name) => j # last.idx
    /\ (last.op = "convert_rust_types" /\ last.ok) =>
          \A i \in 1..Len(last.ret_code) :
             /\ last.ret_code[i][2] = unpack_unique_typename(last.path_edges[i][2])
             /\ Sentinel \notin Range(last.ret_code[i][2])

\* Foo was converted to the node jobject suffixed with Foo: the code names
\* the destination jobject
C23_Witness ==
    /\ last.op = "convert_rust_types"
    /\ last.ok
    /\ conv_graph.nodes[last.to].normalized_name
          = make_unique_rust_typename(<<"jobject">>, <<"Foo">>)
    /\ last.ret_code # <<>>
    /\ last.ret_code[Len(last.ret_code)][2] = <<"jobject">>

\* C24 as stated: the estimate the direct search is run with is 0 at the goal
\* and 1 at every other node, and at no node from which the goal can be
\* reached is it more than the edges that remain to the goal.
C24_EstimateIsAdmissible ==
    \A from \in NodeIds, to \in NodeIds, idx \in NodeIds :
        /\ estimate_cost(idx, from, to) = (IF idx = to THEN 0 ELSE 1)
        /\ ShortestDistance(conv_graph, idx, to) # NoScore
              => estimate_cost(idx, from, to) <= ShortestDistance(conv_graph, idx, to)

\* a generic rule without its dependency cell: the patterns, the bound, the
\* hint and the code template
Template(rule) ==
    [from_ty |-> rule.from_ty, to_ty |-> rule.to_ty, bounds |-> rule.bounds,
     to_foreigner_hint |-> rule.to_foreigner_hint,
     code_template |-> rule.code_template]

\* C25: after a merge the utility code is the utility code held before
\* followed by the batch's fragments in batch order, and the generic rules are
\* the rules held before followed by the batch's rules in batch order; nothing
\* is left out because it was held already.
C25_MergeAppendsUtilsAndRules ==
    [][last'.op = "merge" =>
         LET batch == BatchOf(last'.info)
             k     == Len(batch.utils_code)
             g     == Len(batch.generic_edges)
         IN  /\ utils_code' = utils_code \o batch.utils_code
             /\ Len(utils_code') = Len(utils_code) + k
             /\ Len(generic_edges') = Len(generic_edges) + g
             /\ SubSeq(generic_edges', 1, Len(generic_edges)) = generic_edges
             /\ \A i \in 1..g :
                   Template(generic_edges'[Len(generic_edges) + i])
                      = Template(batch.generic_edges[i])]_vars

\* the batch with a utility fragment and a generic rule was merged a second
\* time: the fragment and the rule are held twice
C25_Witness ==
    /\ last.op = "merge"
    /\ last.info = "class"
    /\ utils_code = BatchClass.utils_code \o BatchClass.utils_code
    /\ BatchClass.utils_code # <<>>
    /\ Len(generic_edges) = Len(default_rules) + 2 * Len(BatchClass.generic_edges)
    /\ BatchClass.generic_edges # <<>>
    /\ Template(generic_edges[Len(generic_edges)])
          = Template(generic_edges[Len(generic_edges) - Len(BatchClass.generic_edges)])

\* whether a class has a method of a kind
HasKind(class, kind) == \E i \in DOMAIN class.methods : class.methods[i] = kind

\* a class without a self type that has a constructor or an instance method,
\* or a class with a self type and no constructor, instance method or static
\* method
Unacceptable(class) ==
    \/ /\ class.self_type = <<>>
       /\ HasKind(class, "Constructor") \/ HasKind(class, "Method")
    \/ /\ class.self_type # <<>>
       /\ ~HasKind(class, "Constructor")
       /\ ~HasKind(class, "Method")
       /\ ~HasKind(class, "StaticMethod")

\* C26: register_class returns an error exactly when the class has no self
\* type but has a constructor or an instance method, or has a self type but no
\* constructor, instance method or static method; a register_class that
\* returns an error leaves the TypeMap as it was.
C26_InvalidClassChangesNothing ==
    [][last'.op = "register_class" =>
          /\ last'.ok <=> ~Unacceptable(last'.class)
          /\ ~last'.ok => Self' = Self]_vars

\* a class with a constructor and no self type is refused after another class
\* was registered
C26_Witness ==
    /\ last.op = "register_class"
    /\ ~last.ok
    /\ last.class.self_type = <<>>
    /\ last.class.constructor_ret_type = <<"Box", "Foo">>
    /\ last.info = "has constructor, but no self_type defined"
    /\ <<"Foo">> \in DOMAIN rust_to_foreign_cache

\* C27: in try_build_path every node of every frontier is reachable from the
\* start in the snapshot graph when its round begins, and whenever the
\* exploration ends because a new destination reaches the goal, the direct
\* search from the start to the goal finds a path: expect("path must exists")
\* does not fail.
C27_FrontierIsReachableFromStart ==
    last.op \in {"try_build_path", "build_path_if_possible"} =>
        /\ last.reach_ok
        /\ last.expect_ok
        /\ last.ok =>
              /\ last.path_edges = <<>> => last.from = last.to
              /\ last.path_edges # <<>> =>
                    /\ last.path_edges[1][1] = NameOf(last.from)
                    /\ last.path_edges[Len(last.path_edges)][2] = NameOf(last.to)
              /\ \A i \in 1..(Len(last.path_edges) - 1) :
                    last.path_edges[i][2] = last.path_edges[i + 1][1]

\* a path of two edges is found in the second round
C27_Witness ==
    /\ last.op = "try_build_path"
    /\ last.ok
    /\ last.rounds >= 2
    /\ Len(last.path_edges) >= 2
    /\ last.reach_ok
    /\ last.expect_ok

\* C28: whenever build_path_if_possible (called by convert_rust_types) or the
\* foreign mapper commits a path that try_build_path produced, no edge exists
\* yet between the two end nodes of any edge being committed: the assertion of
\* merge_path_to_conv_map holds.
C28_CommittedEdgesAreNew ==
    last.op \in {"build_path_if_possible", "convert_rust_types",
                 "map_through_conversation_to_foreign"} => ~last.panic

\* the mapper found paths to several endpoints and committed one of them
C28_Witness ==
    /\ last.op = "map_through_conversation_to_foreign"
    /\ last.info = "built"
    /\ last.n_found >= 2
    /\ edge_count(conv_graph) > last.pre_edges
    /\ ~last.panic

\* the entries of the name index that lead to a node
KeysOf(idx) == {k \in DOMAIN rust_names_map : rust_names_map[k] = idx}

\* C29: after every operation the name index and the graph agree: every node
\* has exactly one entry in rust_names_map, under its normalized name; every
\* entry leads to a node of the graph; every node's graph_idx is its own
\* index; every entry of foreign_names_map leads to a node of the graph.
C29_NameIndexAgreesWithGraph ==
    /\ \A i \in NodeIds :
          /\ KeysOf(i) = {conv_graph.nodes[i].normalized_name}
          /\ conv_graph.nodes[i].graph_idx = i
    /\ \A k \in DOMAIN rust_names_map : rust_names_map[k] \in NodeIds
    /\ \A f \in DOMAIN foreign_names_map : foreign_names_map[f] \in NodeIds

\* a path with a new node was committed after rules were merged, and the new
\* node is indexed under its name
C29_Witness ==
    /\ nops = MaxOps
    /\ last.op \in {"build_path_if_possible", "convert_rust_types",
                    "map_through_conversation_to_foreign"}
    /\ node_count(conv_graph) > last.pre_nodes
    /\ edge_count(conv_graph) > last.pre_edges
    /\ DOMAIN foreign_names_map # {}
    /\ KeysOf(node_count(conv_graph))
          = {conv_graph.nodes[node_count(conv_graph)].normalized_name}
    /\ conv_graph.nodes[node_count(conv_graph)].graph_idx = node_count(conv_graph)

\* the node a conversion for the last mapping starts from, and the node it
\* leads to: from the type to the endpoint when Outgoing, the other way round
\* when Incoming
MappedFrom == IF last.dir = "Outgoing" THEN last.from ELSE last.idx

MappedTo == IF last.dir = "Outgoing" THEN last.idx ELSE last.from

\* convert_rust_types between the type and the endpoint of the last mapping
ConvertMapped == convert_rust_types(Self, MappedFrom, MappedTo)

\* the two end nodes of every edge of a graph (a conversion takes the
\* dependency out of an edge and leaves its ends)
EdgeEnds(g) == [e \in 1..Len(g.edges) |-> <<g.edges[e].src, g.edges[e].dst>>]

\* the last mapping, answered by the direct search or by path building, has
\* its endpoint connected to the type in the live graph
MappedIsConnected ==
    /\ foreign_names_map[last.name] = last.idx
    /\ find_conversation_path(conv_graph, MappedFrom, MappedTo).ok
    /\ ConvertMapped.ok
    /\ ConvertMapped.direct
    /\ ConvertMapped.tm.conv_graph.nodes = conv_graph.nodes
    /\ EdgeEnds(ConvertMapped.tm.conv_graph) = EdgeEnds(conv_graph)
    /\ ConvertMapped.tm.rust_names_map = rust_names_map

\* C30: whenever the foreign mapper returns an endpoint found by the direct
\* search or by path building (the synthesized endpoints included), not by the
\* cache, the live graph afterwards holds a path between the type and the
\* endpoint's node in the requested direction, and convert_rust_types between
\* them succeeds on the direct path and adds nothing to the graph.
C30_MappedEndpointIsConnected ==
    (last.op = "map_through_conversation_to_foreign" /\ last.info \in {"direct", "built"})
        => MappedIsConnected

\* the mapper built and committed a path toward the type (Incoming), and the
\* conversion along it is direct
C30_Witness ==
    /\ last.op = "map_through_conversation_to_foreign"
    /\ last.info = "built"
    /\ last.dir = "Incoming"
    /\ edge_count(conv_graph) > last.pre_edges
    /\ MappedIsConnected
    /\ Len(ConvertMapped.path) >= 1

====
